---- MODULE Spec2Model ----
(***************************************************************************)
(* AirTrail: leg validation, single-flight save and bulk import with       *)
(* de-duplication (src/lib/server/utils/flight.ts) over the flight / leg / *)
(* seat store (src/lib/db/queries.ts and the leg migration).               *)
(***************************************************************************)
EXTENDS Integers, Sequences, FiniteSets, TLC

VARIABLES
  db,      \* the store: tables flight, leg, seat and their id sequences
  call,    \* the last call of an entry point: its arguments and its outcome
  vleg,    \* leg validation: the leg record handed to validateAndProcessLeg
  vres,    \* leg validation: what validateAndProcessLeg returned for vleg
  queue,   \* attach phase: the seat rows queued in seatsToAttach
  sent     \* attach phase: the rows the attach phase sent to the store

vars == <<db, call, vleg, vres, queue, sent>>

(***************************************************************************)
(* Nullable values.  A string-typed field holds a string or NULL; a        *)
(* number- or object-typed field holds None or Some(v).                    *)
(***************************************************************************)
NULL == "<null>"
None == <<>>
Some(v) == <<v>>

Range(s) == {s[i] : i \in 1..Len(s)}

RECURSIVE SeqSum(_)
SeqSum(s) == IF s = <<>> THEN 0 ELSE Head(s) + SeqSum(Tail(s))

(***************************************************************************)
(* Bounds of the model.                                                    *)
(***************************************************************************)
MaxBatch == 2       \* flights in one createManyFlights call
MaxStored == 3      \* flight rows the store may hold before calls stop
MaxSaveLegs == 2    \* legs of a flight handed to validateAndSaveFlight
MaxQueue == 3       \* seat rows queued for the attach phase
MaxSaved == 1       \* flight rows the store may hold in the save runs
MaxLegSeq == 3      \* leg ids the save runs may hand out

Users == {"u1", "u2"}

(***************************************************************************)
(* Airports: reference data, one row per id.                               *)
(***************************************************************************)
JFK == 1
LAX == 2
AirportIds == {JFK, LAX}
AirportTz == [i \in AirportIds |->
                IF i = JFK THEN "America/New_York" ELSE "America/Los_Angeles"]
AirportLat == [i \in AirportIds |-> IF i = JFK THEN 41 ELSE 34]
AirportLon == [i \in AirportIds |-> IF i = JFK THEN -74 ELSE -118]
Airport(i) ==
  [id |-> i, tz |-> AirportTz[i], lat |-> AirportLat[i], lon |-> AirportLon[i]]

(***************************************************************************)
(* The store.  Rows carry the columns the entry points read back; the      *)
(* remaining leg and seat columns are written and never read by them.      *)
(***************************************************************************)
EmptyDb ==
  [flight |-> {}, leg |-> {}, seat |-> {},
   seq |-> [flight |-> 1, leg |-> 1, seat |-> 1]]

Tables(d) == [flight |-> d.flight, leg |-> d.leg, seat |-> d.seat]

\* variant: only the foreign key of a seat row is checked
SeatConstraintsFkOnly(d, rows) ==
  \A r \in rows : \E l \in d.leg : l.id = r.legId

\* seat_leg_id_user_id_key, seat_leg_id_guest_name_key (SQL NULLs never
\* collide) and seat_leg_id_fkey
SeatConstraints(d, rows) ==
  /\ \A r \in rows : \E l \in d.leg : l.id = r.legId
  /\ \A r1 \in rows : \A r2 \in d.seat \cup rows :
       (r1.id # r2.id /\ r1.legId = r2.legId) =>
          /\ (r1.userId # NULL => r1.userId # r2.userId)
          /\ (r1.guestName # NULL => r1.guestName # r2.guestName)

SeatRows(d, seats) ==
  {[id |-> d.seq.seat + i - 1,
    legId |-> seats[i].legId,
    userId |-> seats[i].userId,
    guestName |-> seats[i].guestName,
    seatNumber |-> seats[i].seatNumber] : i \in 1..Len(seats)}

\* db.insertInto('seat').values(rows).execute(): one statement, all rows or none
InsertSeats(d, seats) ==
  IF SeatConstraints(d, SeatRows(d, seats))
  THEN [ok |-> TRUE,
        db |-> [d EXCEPT !.seat = @ \cup SeatRows(d, seats),
                         !.seq.seat = @ + Len(seats)]]
  ELSE [ok |-> FALSE, db |-> d]

LegSeatData(legId, seats) ==
  [i \in 1..Len(seats) |->
     [legId |-> legId,
      userId |-> seats[i].userId,
      guestName |-> seats[i].guestName,
      seatNumber |-> seats[i].seatNumber]]

AirportId(a) == IF a = None THEN None ELSE Some(a[1].id)

\* the leg loop shared by the three write primitives: insert leg i with
\* legOrder i (0-based in the code, position i here is order i - 1), then its
\* seats when it has any.  On a rejected statement the loop stops and db is
\* what the statements before it wrote.
\* variant: legs are numbered from 1
legOrderOneBased(i) == i

\* legOrder: i of the loop for (let i = 0; ...); position i here is its i - 1
legOrderOf(i) == i - 1

RECURSIVE InsertLegs(_, _, _, _)
InsertLegs(d, flightId, legs, i) ==
  IF i > Len(legs) THEN [ok |-> TRUE, db |-> d]
  ELSE
    LET leg == legs[i]
        legId == d.seq.leg
        row == [id |-> legId, flightId |-> flightId,
                legOrder |-> legOrderOf(i),
                fromId |-> AirportId(leg.from), toId |-> AirportId(leg.to),
                departure |-> leg.departure, arrival |-> leg.arrival,
                duration |-> leg.duration,
                flightNumber |-> leg.flightNumber,
                aircraftReg |-> leg.aircraftReg]
        \* leg_flight_id_fkey and leg_flight_id_leg_order_key
        legOk == /\ \E f \in d.flight : f.id = flightId
                 /\ \A l \in d.leg :
                      ~(l.flightId = flightId /\ l.legOrder = legOrderOf(i))
        d1 == [d EXCEPT !.leg = @ \cup {row}, !.seq.leg = @ + 1]
        r == IF Len(leg.seats) > 0
             THEN InsertSeats(d1, LegSeatData(legId, leg.seats))
             ELSE [ok |-> TRUE, db |-> d1]
    IN IF ~legOk THEN [ok |-> FALSE, db |-> d]
       ELSE IF ~r.ok THEN [ok |-> FALSE, db |-> d1]
       ELSE InsertLegs(r.db, flightId, legs, i + 1)

\* the body of one flight's insert: the flight row, then its legs
InsertFlight(d, data) ==
  LET id == d.seq.flight
      d1 == [d EXCEPT !.flight = @ \cup {[id |-> id, date |-> data.date]},
                      !.seq.flight = @ + 1]
      r == InsertLegs(d1, id, data.legs, 1)
  IN [ok |-> r.ok, db |-> r.db, id |-> id]

\* variant: the statements run outside a transaction, a failure keeps what
\* was written before it
TransactionNoRollback(d, r) == r

\* db.transaction().execute(body): the body's writes, or on a throw the store
\* as it was before the call
Transaction(d, r) == IF r.ok THEN r ELSE [r EXCEPT !.db = d]

createFlightPrimitive(d, data) == Transaction(d, InsertFlight(d, data))

RECURSIVE InsertFlights(_, _, _)
InsertFlights(d, data, k) ==
  IF k > Len(data) THEN [ok |-> TRUE, db |-> d]
  ELSE LET r == InsertFlight(d, data[k])
       IN IF ~r.ok THEN [ok |-> FALSE, db |-> r.db]
          ELSE InsertFlights(r.db, data, k + 1)

\* variant: one transaction per flight, a failure keeps the flights before it
RECURSIVE createManyFlightsPerFlight(_, _)
createManyFlightsPerFlight(d, data) ==
  IF Len(data) = 0 THEN [ok |-> TRUE, db |-> d]
  ELSE LET r == createFlightPrimitive(d, data[1])
       IN IF ~r.ok THEN [ok |-> FALSE, db |-> r.db]
          ELSE createManyFlightsPerFlight(r.db, Tail(data))

createManyFlightsPrimitive(d, data) ==
  Transaction(d, InsertFlights(d, data, 1))

\* the body of updateFlightPrimitive: the flight row is updated (no row when
\* the id is unknown, which is no error), its legs are deleted, their seats
\* with them (ON DELETE CASCADE), and the new legs are inserted
UpdateBody(d, id, data) ==
  LET oldLegs == {l.id : l \in {x \in d.leg : x.flightId = id}}
      d1 == [d EXCEPT
               !.flight = {IF f.id = id THEN [f EXCEPT !.date = data.date]
                           ELSE f : f \in @},
               !.leg = {l \in @ : l.flightId # id},
               !.seat = {s \in @ : s.legId \notin oldLegs}]
  IN InsertLegs(d1, id, data.legs, 1)

updateFlightPrimitive(d, id, data) == Transaction(d, UpdateBody(d, id, data))

(***************************************************************************)
(* Reading flights back: legs in legOrder, each with its seats.            *)
(***************************************************************************)
RECURSIVE SortLegs(_)
SortLegs(rows) ==
  IF rows = {} THEN <<>>
  ELSE LET first == CHOOSE l \in rows :
                      \A m \in rows : l.legOrder <= m.legOrder
       IN <<first>> \o SortLegs(rows \ {first})

\* the airports sub-select: the airport row of a leg's from_id / to_id
AirportOf(fk) == IF fk = None THEN None ELSE Some(Airport(fk[1]))

\* a leg as read back; the timestamp columns are taken to read back as the
\* strings that were written
LegView(d, l) ==
  [id |-> l.id, from |-> AirportOf(l.fromId), to |-> AirportOf(l.toId),
   departure |-> l.departure, arrival |-> l.arrival,
   flightNumber |-> l.flightNumber, aircraftReg |-> l.aircraftReg,
   seats |-> {s \in d.seat : s.legId = l.id}]

FlightView(d, f) ==
  LET sorted == SortLegs({l \in d.leg : l.flightId = f.id})
  IN [id |-> f.id, date |-> f.date,
      legs |-> [i \in 1..Len(sorted) |-> LegView(d, sorted[i])]]

HoldsSeat(d, flightId, userId) ==
  \E l \in d.leg : \E s \in d.seat :
     l.flightId = flightId /\ s.legId = l.id /\ s.userId = userId

getFlightPrimitive(d, id) ==
  IF \E f \in d.flight : f.id = id
  THEN Some(FlightView(d, CHOOSE f \in d.flight : f.id = id))
  ELSE None

\* the rows of listFlightBaseQuery(db, userId): flights with a seat of the user
listFlightBaseQuery(d, userId) ==
  {f \in d.flight : HoldsSeat(d, f.id, userId)}

(***************************************************************************)
(* Bulk import: signature and createManyFlights.                           *)
(***************************************************************************)
StrOrEmpty(x) == IF x = NULL THEN "" ELSE x                   \* x ?? ''
NumOrEmpty(o) == IF o = None THEN "" ELSE ToString(o[1])      \* id ?? ''

signature(f) ==
  IF Len(f.legs) = 0 THEN f.date
  ELSE LET firstLeg == f.legs[1]
           from == AirportId(firstLeg.from)
           to == AirportId(firstLeg.to)
       IN StrOrEmpty(f.date) \o "|" \o NumOrEmpty(from) \o "|" \o
          NumOrEmpty(to) \o "|" \o StrOrEmpty(firstLeg.flightNumber) \o "|" \o
          StrOrEmpty(firstLeg.aircraftReg) \o "|" \o
          StrOrEmpty(firstLeg.departure) \o "|" \o
          StrOrEmpty(firstLeg.arrival) \o "|" \o ToString(Len(f.legs))

RECURSIVE Pick(_, _, _)
Pick(s, keep, i) ==
  IF i > Len(s) THEN <<>>
  ELSE (IF i \in keep THEN <<s[i]>> ELSE <<>>) \o Pick(s, keep, i + 1)

\* variant: a later flight replaces an earlier one with the same key
uniqueFlightsKeepLast(data) ==
  Pick(data,
       {i \in 1..Len(data) :
          \A j \in (i + 1)..Len(data) : signature(data[j]) # signature(data[i])},
       1)

\* uniqueMap: a flight is set only when its key is not in the map yet
uniqueFlights(data) ==
  Pick(data,
       {i \in 1..Len(data) :
          \A j \in 1..(i - 1) : signature(data[j]) # signature(data[i])},
       1)

FirstLegIds(flights, end) ==
  {AirportId(flights[i].legs[1][end])[1] :
     i \in {j \in 1..Len(flights) :
              /\ Len(flights[j].legs) > 0
              /\ AirportId(flights[j].legs[1][end]) # None}}

dates(unique) == {unique[i].date : i \in 1..Len(unique)}
froms(unique) == FirstLegIds(unique, "from")
tos(unique) == FirstLegIds(unique, "to")

\* whether the existing-flight lookup runs at all
Lookup(unique) ==
  dates(unique) # {} /\ froms(unique) # {} /\ tos(unique) # {}

\* the rows of listFlightsQuery(userId).where('date', 'in', dates)
QueryRows(d, userId, unique) ==
  IF Lookup(unique)
  THEN {f \in listFlightBaseQuery(d, userId) : f.date \in dates(unique)}
  ELSE {}

RECURSIVE Orderings(_)
Orderings(S) ==
  IF S = {} THEN {<<>>}
  ELSE UNION {{<<x>> \o t : t \in Orderings(S \ {x})} : x \in S}

\* existingFlights: the rows in the order the query returned them, filtered to
\* those whose first leg matches froms / tos
MatchesFirstLeg(ef, unique) ==
  /\ Len(ef.legs) > 0
  /\ AirportId(ef.legs[1].from) # None
  /\ AirportId(ef.legs[1].from)[1] \in froms(unique)
  /\ AirportId(ef.legs[1].to) # None
  /\ AirportId(ef.legs[1].to)[1] \in tos(unique)

existingFlights(d, rows, unique) ==
  LET views == [i \in 1..Len(rows) |-> FlightView(d, rows[i])]
  IN Pick(views, {i \in 1..Len(views) : MatchesFirstLeg(views[i], unique)}, 1)

\* existingBySig.get(key): the id of the first existing flight with that key
existingBySig(existing, key) ==
  LET hits == {i \in 1..Len(existing) : signature(existing[i]) = key}
  IN IF hits = {} THEN None
     ELSE Some(existing[CHOOSE i \in hits : \A j \in hits : i <= j].id)

\* userSeatByFlight: the leg-seat join restricted to the existing ids
userSeatByFlight(d, userId, existing) ==
  {existing[i].id : i \in {j \in 1..Len(existing) :
                              HoldsSeat(d, existing[j].id, userId)}}

\* the seats of the incoming first leg as rows for the existing first leg
AttachRows(existing, existingId, f) ==
  LET ef == existing[CHOOSE i \in 1..Len(existing) : existing[i].id = existingId]
  IN IF Len(ef.legs) = 0 \/ Len(f.legs) = 0 THEN <<>>
     ELSE LegSeatData(ef.legs[1].id, f.legs[1].seats)

\* the loop over uniqueFlights: skip, queue the seats, or queue the flight
RECURSIVE Decide(_, _, _, _)
Decide(unique, existing, seatHolder, i) ==
  IF i > Len(unique) THEN [flightsToInsert |-> <<>>, seatsToAttach |-> <<>>]
  ELSE
    LET f == unique[i]
        existingId == existingBySig(existing, signature(f))
        rest == Decide(unique, existing, seatHolder, i + 1)
    IN IF existingId # None
       THEN IF existingId[1] \in seatHolder THEN rest
            ELSE [rest EXCEPT !.seatsToAttach =
                    AttachRows(existing, existingId[1], f) \o @]
       ELSE [rest EXCEPT !.flightsToInsert = <<f>> \o @]

\* uniqueSeatsMap: the first queued row of each `${legId}|${userId ?? ''}`
seatKey(s) == ToString(s.legId) \o "|" \o StrOrEmpty(s.userId)

\* variant: every queued row is sent, the map is not consulted
uniqueSeatsKeepAll(seatsToAttach) == seatsToAttach

uniqueSeats(seatsToAttach) ==
  Pick(seatsToAttach,
       {i \in 1..Len(seatsToAttach) :
          \A j \in 1..(i - 1) :
             seatKey(seatsToAttach[j]) # seatKey(seatsToAttach[i])},
       1)

\* the attach phase: the rows sent to the store and the count returned.
\* threw: the seat insert rejected, which leaves the call without a result.
AttachPhase(d, seatsToAttach) ==
  IF Len(seatsToAttach) = 0
  THEN [threw |-> FALSE, db |-> d, rows |-> <<>>, attachedSeats |-> 0]
  ELSE LET rows == uniqueSeats(seatsToAttach)
           r == InsertSeats(d, rows)
       IN [threw |-> ~r.ok, db |-> r.db, rows |-> rows,
           attachedSeats |-> Len(rows)]

SeatCount(f) == SeqSum([i \in 1..Len(f.legs) |-> Len(f.legs[i].seats)])

\* the dedupe = false path: nothing is looked up, the whole batch is inserted
plainInsert(d, data) ==
  LET r == createManyFlightsPrimitive(d, data)
  IN [threw |-> ~r.ok, db |-> r.db,
      insertedFlights |-> Len(data),
      attachedSeats |-> SeqSum([i \in 1..Len(data) |-> SeatCount(data[i])])]

\* the dedupe = true path; rows is the order in which the existing-flight
\* query returned its rows
dedupedImport(d, data, userId, rows) ==
  LET unique == uniqueFlights(data)
      existing == existingFlights(d, rows, unique)
      seatHolder == userSeatByFlight(d, userId, existing)
      plan == Decide(unique, existing, seatHolder, 1)
      ins == IF Len(plan.flightsToInsert) > 0
             THEN createManyFlightsPrimitive(d, plan.flightsToInsert)
             ELSE [ok |-> TRUE, db |-> d]
      att == AttachPhase(ins.db, plan.seatsToAttach)
  IN IF Len(unique) = 0
     THEN [threw |-> FALSE, db |-> d, insertedFlights |-> 0,
           attachedSeats |-> 0]
     ELSE IF ~ins.ok
     THEN [threw |-> TRUE, db |-> d, insertedFlights |-> 0,
           attachedSeats |-> 0]
     ELSE [threw |-> att.threw, db |-> att.db,
           insertedFlights |-> Len(plan.flightsToInsert),
           attachedSeats |-> att.attachedSeats]

\* variant: the dedupe flag is ignored and every batch is deduplicated
createManyFlightsAlwaysDedupe(d, data, userId, dedupe, rows) ==
  dedupedImport(d, data, userId, rows)

\* createManyFlights(data, userId, dedupe)
createManyFlights(d, data, userId, dedupe, rows) ==
  IF ~dedupe THEN plainInsert(d, data)
  ELSE dedupedImport(d, data, userId, rows)

(***************************************************************************)
(* Dates and times.  A date field of a leg is an ISO date-time string: the *)
(* calendar day it writes (in days since 1970-01-01), the minute of the    *)
(* day it writes and the UTC offset it writes.  A time field is a string   *)
(* such as "10:00".  An instant is a number of minutes since the epoch.    *)
(***************************************************************************)
MinutesPerDay == 1440
SecondsPerMinute == 60
Day20240101 == 19723
Day19691231 == -1

IsoDate(day) == [day |-> day, min |-> 0, off |-> 0]

\* the zone offsets, in minutes, on the model's dates (standard time)
TzOffset(tz) ==
  CASE tz = "America/New_York" -> Some(-300)
    [] tz = "America/Los_Angeles" -> Some(-480)
    [] tz = "UTC" -> Some(0)
    [] OTHER -> None

\* the minute of the day a time string names; None when it is malformed
TimeOfDay(time) ==
  CASE time = "08:00" -> Some(480)
    [] time = "09:00" -> Some(540)
    [] time = "10:00" -> Some(600)
    [] time = "23:30" -> Some(1410)
    [] OTHER -> None

\* parseISO: the instant an ISO date-time string with offset names
parseISO(date) == date.day * MinutesPerDay + date.min - date.off

\* parseLocalISO(iso, tz): the wall-clock date-time the string writes, taken
\* as local time in tz
parseLocalISO(date, tz) ==
  date.day * MinutesPerDay + date.min - TzOffset(tz)[1]

isBeforeEpoch(instant) == instant < 0

\* mergeTimeWithDate(date, time, tz): the calendar day the date writes at the
\* given time of day in tz; None stands for the throw on a malformed time or
\* an unknown zone
mergeTimeWithDate(date, time, tz) ==
  IF TimeOfDay(time) = None \/ TzOffset(tz) = None THEN None
  ELSE Some(date.day * MinutesPerDay + TimeOfDay(time)[1] - TzOffset(tz)[1])

\* toUtc(x).toISOString(): the instant written out as a UTC string
toISOString(instant) == "utc:" \o ToString(instant)

\* distanceBetween, in metres
distanceBetween(a, b) ==
  IF a.lat = b.lat /\ a.lon = b.lon THEN 0 ELSE 3974000

\* estimateFlightDuration(km), in seconds: cruise time plus a fixed overhead,
\* 0 at distance 0
estimateFlightDuration(km) ==
  IF km = 0 THEN 0 ELSE (km * 9) \div 2 + 1800

Truthy(x) == x # NULL /\ x # ""

(***************************************************************************)
(* Leg validation.  The result carries the error or the value, and the leg *)
(* record as the call left it.                                             *)
(***************************************************************************)
\* variant: the leg is numbered from 1 in the path
pathErrorOneBased(legIndex, path, message) ==
  [success |-> FALSE, type |-> "path",
   path |-> "legs[" \o ToString(legIndex + 1) \o "]." \o path,
   message |-> message]

pathError(legIndex, path, message) ==
  [success |-> FALSE, type |-> "path",
   path |-> "legs[" \o ToString(legIndex) \o "]." \o path,
   message |-> message]

\* value: None when the pair is incomplete; ok = FALSE when the merge threw
parseDateTimeField(date, time, tzId) ==
  IF date = None \/ ~Truthy(time) THEN [ok |-> TRUE, value |-> None]
  ELSE LET m == mergeTimeWithDate(date[1], time, tzId)
       IN [ok |-> m # None, value |-> m]

IsoOrNull(instant) ==
  IF instant = None THEN NULL ELSE toISOString(instant[1])

\* variant: the estimate is used whenever an instant is missing, also for a
\* leg that starts and ends at one airport
legDurationNoIdCheck(legData, departure, arrival) ==
  IF departure # None /\ arrival # None
  THEN Some((arrival[1] - departure[1]) * SecondsPerMinute)
  ELSE Some(estimateFlightDuration(
              distanceBetween(legData.from, legData.to) \div 1000))

\* differenceInSeconds(arrival, departure), the estimate, or null
legDuration(legData, departure, arrival) ==
  IF departure # None /\ arrival # None
  THEN Some((arrival[1] - departure[1]) * SecondsPerMinute)
  ELSE IF legData.from.id # legData.to.id
  THEN Some(estimateFlightDuration(
              distanceBetween(legData.from, legData.to) \div 1000))
  ELSE None

\* variant: the comparison reads the other way round
arrivalBeforeDepartureReversed(arrival, departure) ==
  arrival # None /\ departure # None /\ departure[1] < arrival[1]

\* arrival && departure && isBefore(arrival, departure)
arrivalBeforeDeparture(arrival, departure) ==
  arrival # None /\ departure # None /\ arrival[1] < departure[1]

\* variant: arrival-side fields are read in the origin airport's zone
arrivalTzOrigin(legData) == legData.from.tz

\* the zone of the arrival-side fields: to.tz
arrivalTz(legData) == legData.to.tz

validateAndProcessLeg(legData, legIndex) ==
  LET from == legData.from
      to == legData.to
      Err(l, path, message) ==
        [error |-> Some(pathError(legIndex, path, message)),
         value |-> None, leg |-> l]
      primaryDepartureDate ==
        IF legData.departure # None THEN legData.departure
        ELSE legData.departureScheduled
      departure ==
        IF legData.departure # None
        THEN parseDateTimeField(legData.departure, legData.departureTime,
                                from.tz)
        ELSE [ok |-> TRUE, value |-> None]
      departureScheduled ==
        parseDateTimeField(legData.departureScheduled,
                           legData.departureScheduledTime, from.tz)
      takeoffScheduled ==
        parseDateTimeField(legData.takeoffScheduled,
                           legData.takeoffScheduledTime, from.tz)
      takeoffActual ==
        parseDateTimeField(legData.takeoffActual,
                           legData.takeoffActualTime, from.tz)
      \* legData.arrival = legData.departure when only the time is given
      leg1 == IF Truthy(legData.arrivalTime) /\ legData.arrival = None
              THEN [legData EXCEPT !.arrival = legData.departure]
              ELSE legData
      arrival ==
        parseDateTimeField(leg1.arrival, leg1.arrivalTime, arrivalTz(leg1))
      arrivalScheduled ==
        parseDateTimeField(leg1.arrivalScheduled,
                           leg1.arrivalScheduledTime, arrivalTz(leg1))
      landingScheduled ==
        parseDateTimeField(leg1.landingScheduled,
                           leg1.landingScheduledTime, arrivalTz(leg1))
      landingActual ==
        parseDateTimeField(leg1.landingActual,
                           leg1.landingActualTime, arrivalTz(leg1))
  IN
  IF legData.departure = None /\ legData.departureScheduled = None
  THEN Err(legData, "departure", "Select a departure date")
  ELSE IF isBeforeEpoch(parseISO(primaryDepartureDate[1]))
  THEN Err(legData,
           IF legData.departure # None THEN "departure"
           ELSE "departureScheduled",
           "Too far in the past")
  ELSE IF ~departure.ok
  THEN Err(legData, "departureTime", "Invalid time format")
  ELSE IF ~departureScheduled.ok
  THEN Err(legData, "departureScheduledTime", "Invalid time format")
  ELSE IF ~takeoffScheduled.ok
  THEN Err(legData, "takeoffScheduledTime", "Invalid time format")
  ELSE IF ~takeoffActual.ok
  THEN Err(legData, "takeoffActualTime", "Invalid time format")
  ELSE IF legData.arrival # None
          /\ isBeforeEpoch(parseLocalISO(legData.arrival[1], arrivalTz(legData)))
  THEN Err(legData, "arrival", "Too far in the past")
  ELSE IF legData.arrival # None /\ ~Truthy(legData.arrivalTime)
  THEN Err(legData, "arrival", "Cannot have arrival date without time")
  ELSE IF ~arrival.ok
  THEN Err(leg1, "arrivalTime", "Invalid time format")
  ELSE IF ~arrivalScheduled.ok
  THEN Err(leg1, "arrivalScheduledTime", "Invalid time format")
  ELSE IF ~landingScheduled.ok
  THEN Err(leg1, "landingScheduledTime", "Invalid time format")
  ELSE IF ~landingActual.ok
  THEN Err(leg1, "landingActualTime", "Invalid time format")
  ELSE IF arrivalBeforeDeparture(arrival.value, departure.value)
  THEN Err(leg1, "arrival", "Arrival must be after departure")
  ELSE
    [error |-> None,
     value |-> Some(
       [from |-> Some(leg1.from),
        to |-> Some(leg1.to),
        duration |-> legDuration(leg1, departure.value, arrival.value),
        departure |-> IsoOrNull(departure.value),
        arrival |-> IsoOrNull(arrival.value),
        departureScheduled |-> IsoOrNull(departureScheduled.value),
        arrivalScheduled |-> IsoOrNull(arrivalScheduled.value),
        takeoffScheduled |-> IsoOrNull(takeoffScheduled.value),
        takeoffActual |-> IsoOrNull(takeoffActual.value),
        landingScheduled |-> IsoOrNull(landingScheduled.value),
        landingActual |-> IsoOrNull(landingActual.value),
        flightNumber |-> leg1.flightNumber,
        aircraftReg |-> leg1.aircraftReg]),
     leg |-> leg1]

(***************************************************************************)
(* Single-flight save.                                                     *)
(***************************************************************************)
DateName(day) ==
  CASE day = Day20240101 - 1 -> "2023-12-31"
    [] day = Day20240101 -> "2024-01-01"
    [] day = Day20240101 + 1 -> "2024-01-02"
    [] OTHER -> "day" \o ToString(day)

\* format(date, 'yyyy-MM-dd'): the calendar day of the instant in the zone the
\* server process runs in (serverOffset minutes east of UTC)
formatDate(instant, serverOffset) ==
  DateName((instant + serverOffset) \div MinutesPerDay)

\* variant: the loop stops after its first pass
legResultsFirstOnly(legs) ==
  [i \in 1..1 |-> validateAndProcessLeg(legs[i], i - 1)]

\* the results of the leg loop, in order
legResults(legs) ==
  [i \in 1..Len(legs) |-> validateAndProcessLeg(legs[i], i - 1)]

firstError(results) ==
  LET bad == {i \in 1..Len(results) : results[i].error # None}
  IN IF bad = {} THEN 0 ELSE CHOOSE i \in bad : \A j \in bad : i <= j

\* processedLegs: one entry pushed per pass of the loop
processedLegs(legs, results) ==
  [i \in 1..Len(results) |->
     results[i].value[1] @@ [seats |-> results[i].leg.seats]]

\* a call that threw has no result
NoResult == [none |-> TRUE]

\* variant: the check only asks whether the flight exists
ownsSeatFlightExists(flight, userId) == flight # None

\* the ownership check on the flight read back
ownsSeat(flight, userId) ==
  /\ flight # None
  /\ \E i \in 1..Len(flight[1].legs) :
       \E seat \in flight[1].legs[i].seats : seat.userId = userId

\* fail names the store operation that rejects in this call: "read" (the
\* existing-flight read), "write" (createFlight / updateFlight) or "none"
validateAndSaveFlight(d, userId, data, fail, serverOffset) ==
  LET results == legResults(data.legs)
      bad == firstError(results)
      firstLeg == data.legs[1]
      primaryDepartureDate ==
        IF firstLeg.departure # None THEN firstLeg.departure
        ELSE firstLeg.departureScheduled
      values ==
        [date |-> formatDate(parseISO(primaryDepartureDate[1]), serverOffset),
         legs |-> processedLegs(data.legs, results)]
      updateId == data.id
      upd == updateFlightPrimitive(d, updateId, values)
      crt == createFlightPrimitive(d, values)
  IN
  IF bad # 0
  THEN [threw |-> FALSE, result |-> results[bad].error[1], db |-> d]
  ELSE IF updateId # 0
  THEN IF fail = "read"
       THEN [threw |-> TRUE, result |-> NoResult, db |-> d]
       ELSE IF ~ownsSeat(getFlightPrimitive(d, updateId), userId)
       THEN [threw |-> FALSE,
             result |-> [success |-> FALSE, type |-> "httpError",
                         status |-> 403,
                         message |-> "Flight not found or you do not have a seat on this flight"],
             db |-> d]
       ELSE IF fail = "write" \/ ~upd.ok
       THEN [threw |-> FALSE,
             result |-> [success |-> FALSE, type |-> "error",
                         message |-> "Failed to update flight"],
             db |-> d]
       ELSE [threw |-> FALSE,
             result |-> [success |-> TRUE,
                         message |-> "Flight updated successfully"],
             db |-> upd.db]
  ELSE IF fail = "write" \/ ~crt.ok
  THEN [threw |-> FALSE,
        result |-> [success |-> FALSE, type |-> "error",
                    message |-> "Failed to add flight"],
        db |-> d]
  ELSE [threw |-> FALSE,
        result |-> [success |-> TRUE, message |-> "Flight added",
                    id |-> crt.id],
        db |-> crt.db]

(***************************************************************************)
(* Inputs of the entry points.                                             *)
(***************************************************************************)
Seat(userId, guestName, seatNumber) ==
  [userId |-> userId, guestName |-> guestName, seatNumber |-> seatNumber]

ImportLeg(from, seats) ==
  [from |-> from, to |-> Some(Airport(LAX)),
   departure |-> "2024-01-01T15:00:00.000Z", arrival |-> NULL,
   duration |-> None, flightNumber |-> "AB1", aircraftReg |-> NULL,
   seats |-> seats]

ImportFlight(date, from, seats) ==
  [date |-> date, legs |-> <<ImportLeg(from, seats)>>]

\* flights as the file import and the createMany endpoint hand them over:
\* the same flight with a seat of u1 or of u2, one with an unknown origin
\* airport, one whose leg names u1 twice, and one on another day
ImportFlights ==
  {ImportFlight("2024-01-01", Some(Airport(JFK)), <<Seat("u1", NULL, "1A")>>),
   ImportFlight("2024-01-01", Some(Airport(JFK)), <<Seat("u2", NULL, "1B")>>),
   ImportFlight("2024-01-01", None, <<Seat("u1", NULL, "1A")>>),
   ImportFlight("2024-01-01", Some(Airport(JFK)),
                <<Seat("u1", NULL, "1A"), Seat("u1", NULL, "2B")>>),
   ImportFlight("2024-01-02", Some(Airport(JFK)),
                <<Seat("u1", NULL, "1A"), Seat(NULL, "Ann", NULL)>>)}

Batches == UNION {[1..k -> ImportFlights] : k \in 0..MaxBatch}

(***************************************************************************)
(* Entry points over the store.                                            *)
(***************************************************************************)
Idle == [op |-> "none"]

CreateManyFlights ==
  \E data \in Batches, userId \in Users, dedupe \in BOOLEAN :
    /\ Cardinality(db.flight) + Len(data) <= MaxStored
    /\ \E rows \in Orderings(IF dedupe
                             THEN QueryRows(db, userId, uniqueFlights(data))
                             ELSE {}) :
         LET r == createManyFlights(db, data, userId, dedupe, rows)
         IN /\ db' = r.db
            /\ call' = [op |-> "createManyFlights", data |-> data,
                        userId |-> userId, dedupe |-> dedupe,
                        threw |-> r.threw,
                        insertedFlights |-> r.insertedFlights,
                        attachedSeats |-> r.attachedSeats]
    /\ UNCHANGED <<vleg, vres, queue, sent>>

CreateFlight ==
  \E data \in ImportFlights :
    /\ Cardinality(db.flight) < MaxStored
    /\ LET r == createFlightPrimitive(db, data)
       IN /\ db' = r.db
          /\ call' = [op |-> "createFlight", data |-> data, threw |-> ~r.ok]
    /\ UNCHANGED <<vleg, vres, queue, sent>>

Init ==
  /\ db = EmptyDb
  /\ call = Idle
  /\ vleg = None
  /\ vres = None
  /\ queue = <<>>
  /\ sent = None

Next == CreateManyFlights \/ CreateFlight

Spec == Init /\ [][Next]_vars

(***************************************************************************)
(* Leg validation on its own: every leg of LegInputs, at index 0 or 1.     *)
(***************************************************************************)
NoPair == [date |-> None, time |-> NULL]
GoodPair == [date |-> Some(IsoDate(Day20240101)), time |-> "09:00"]
BadPair == [date |-> Some(IsoDate(Day20240101)), time |-> "bad"]

OtherNames ==
  {"takeoffScheduled", "takeoffActual", "arrivalScheduled",
   "landingScheduled", "landingActual"}

\* the scheduled and actual pairs besides departure, departureScheduled and
\* arrival: all absent, or one of them given, well-formed or not
OtherFields ==
  {[n \in OtherNames |-> NoPair]}
  \cup {[n \in OtherNames |-> IF n = m THEN p ELSE NoPair] :
          m \in OtherNames, p \in {GoodPair, BadPair}}

LegInput(from, to, dep, depTime, sched, schedTime, arr, arrTime, other, seats) ==
  [from |-> from, to |-> to,
   departure |-> dep, departureTime |-> depTime,
   departureScheduled |-> sched, departureScheduledTime |-> schedTime,
   takeoffScheduled |-> other["takeoffScheduled"].date,
   takeoffScheduledTime |-> other["takeoffScheduled"].time,
   takeoffActual |-> other["takeoffActual"].date,
   takeoffActualTime |-> other["takeoffActual"].time,
   arrival |-> arr, arrivalTime |-> arrTime,
   arrivalScheduled |-> other["arrivalScheduled"].date,
   arrivalScheduledTime |-> other["arrivalScheduled"].time,
   landingScheduled |-> other["landingScheduled"].date,
   landingScheduledTime |-> other["landingScheduled"].time,
   landingActual |-> other["landingActual"].date,
   landingActualTime |-> other["landingActual"].time,
   flightNumber |-> "AB1", aircraftReg |-> NULL,
   seats |-> seats]

LegInputs ==
  {LegInput(Airport(f), Airport(t), dep, depTime, sched, schedTime, arr,
            arrTime, other, <<Seat("u1", NULL, "1A")>>) :
     f \in AirportIds, t \in AirportIds,
     dep \in {None, Some(IsoDate(Day20240101)), Some(IsoDate(Day19691231))},
     depTime \in {NULL, "10:00", "bad"},
     sched \in {None, Some(IsoDate(Day20240101))},
     schedTime \in {NULL, "09:00", "bad"},
     arr \in {None, Some(IsoDate(Day20240101)), Some(IsoDate(Day19691231))},
     arrTime \in {NULL, "08:00", "23:30", "bad"},
     other \in OtherFields}

LegIndexes == {0, 1}

InitLeg ==
  /\ db = EmptyDb
  /\ call = Idle
  /\ vleg \in {Some([leg |-> l, index |-> i]) : l \in LegInputs, i \in LegIndexes}
  /\ vres = None
  /\ queue = <<>>
  /\ sent = None

ValidateLeg ==
  /\ vleg # None
  /\ vres = None
  /\ vres' = Some(validateAndProcessLeg(vleg[1].leg, vleg[1].index))
  /\ UNCHANGED <<db, call, vleg, queue, sent>>

NextLeg == ValidateLeg

SpecLeg == InitLeg /\ [][NextLeg]_vars

(***************************************************************************)
(* Single-flight save over the store.                                      *)
(***************************************************************************)
NoOther == [n \in OtherNames |-> NoPair]

\* legs of the save runs: two that validate (a seat of u1, a seat of u2) and
\* one without any departure date
SaveLegs ==
  {LegInput(Airport(JFK), Airport(LAX), Some(IsoDate(Day20240101)), "10:00",
            None, NULL, None, "08:00", NoOther, <<Seat("u1", NULL, "1A")>>),
   LegInput(Airport(LAX), Airport(JFK), Some(IsoDate(Day20240101)), NULL,
            None, NULL, None, NULL, NoOther, <<Seat("u2", NULL, "1B")>>),
   LegInput(Airport(JFK), Airport(LAX), None, NULL,
            None, NULL, None, NULL, NoOther, <<Seat("u1", NULL, "1A")>>)}

SaveIds == 0..MaxSaved + 1     \* 0: no id, a create

SaveInputs ==
  {[id |-> id, legs |-> legs] :
     id \in SaveIds,
     legs \in UNION {[1..k -> SaveLegs] : k \in 1..MaxSaveLegs}}

StoreFailures == {"none", "read", "write"}
ServerOffsets == {0}

\* one call of validateAndSaveFlight, its input drawn from inputs, the store
\* failure from failures and the zone of the server process from offsets
SaveStep(inputs, failures, offsets) ==
  \E data \in inputs, userId \in Users, fail \in failures,
     serverOffset \in offsets :
    /\ data.id = 0 => Cardinality(db.flight) < MaxSaved
    /\ db.seq.leg + Len(data.legs) <= MaxLegSeq + 1
    /\ LET r == validateAndSaveFlight(db, userId, data, fail, serverOffset)
       IN \* a failure is injected only into an operation the call invokes
          /\ fail # "none" =>
               r # validateAndSaveFlight(db, userId, data, "none", serverOffset)
          /\ db' = r.db
          /\ call' = [op |-> "validateAndSaveFlight", data |-> data,
                      userId |-> userId, fail |-> fail,
                      serverOffset |-> serverOffset,
                      threw |-> r.threw, result |-> r.result]
    /\ UNCHANGED <<vleg, vres, queue, sent>>

ValidateAndSaveFlight == SaveStep(SaveInputs, StoreFailures, ServerOffsets)

NextSave == ValidateAndSaveFlight

SpecSave == Init /\ [][NextSave]_vars

(***************************************************************************)
(* The attach phase on its own: a store holding two flights of u2 and any  *)
(* queue of seat rows for their first legs.                                *)
(***************************************************************************)
AttachDb ==
  createManyFlightsPrimitive(
    EmptyDb,
    <<ImportFlight("2024-01-01", Some(Airport(JFK)), <<Seat("u2", NULL, "1B")>>),
      ImportFlight("2024-01-02", Some(Airport(JFK)), <<Seat("u2", NULL, "1B")>>)>>).db

QueueRows ==
  {[legId |-> l.id, userId |-> p[1], guestName |-> p[2], seatNumber |-> n] :
     l \in AttachDb.leg,
     p \in {<<"u1", NULL>>, <<"u2", NULL>>, <<NULL, "Ann">>, <<NULL, "Bob">>},
     n \in {"1A", "2B"}}

InitAttach ==
  /\ db = AttachDb
  /\ call = Idle
  /\ vleg = None
  /\ vres = None
  /\ queue \in UNION {[1..k -> QueueRows] : k \in 0..MaxQueue}
  /\ sent = None

AttachSeats ==
  /\ sent = None
  /\ LET r == AttachPhase(db, queue)
     IN /\ sent' = Some(r.rows)
        /\ db' = r.db
        /\ call' = [op |-> "attach", threw |-> r.threw,
                    attachedSeats |-> r.attachedSeats]
  /\ UNCHANGED <<vleg, vres, queue>>

NextAttach == AttachSeats

SpecAttach == InitAttach /\ [][NextAttach]_vars

(***************************************************************************)
(* Properties of leg validation (checked under SpecLeg).                   *)
(***************************************************************************)
\* the instants a leg's departure and arrival date+time pairs name, read off
\* the input: the departure in the origin's zone, the arrival in the
\* destination's zone, on the departure date when only an arrival time is given
DepInstantOf(l) ==
  IF l.departure = None \/ ~Truthy(l.departureTime) THEN None
  ELSE mergeTimeWithDate(l.departure[1], l.departureTime, l.from.tz)

ArrInstantOf(l) ==
  LET date == IF l.arrival # None THEN l.arrival ELSE l.departure
  IN IF date = None \/ ~Truthy(l.arrivalTime) THEN None
     ELSE mergeTimeWithDate(date[1], l.arrivalTime, l.to.tz)

Malformed(date, time) ==
  date # None /\ Truthy(time) /\ TimeOfDay(time) = None

\* a check that comes before the arrival/departure comparison rejects the leg:
\* a date before the epoch, or a malformed time in another date+time pair
EarlierCheckRejects(l) ==
  \/ l.departure # None /\ l.departure[1].day < 0
  \/ l.departure = None /\ l.departureScheduled # None
       /\ l.departureScheduled[1].day < 0
  \/ l.arrival # None /\ l.arrival[1].day < 0
  \/ Malformed(l.departureScheduled, l.departureScheduledTime)
  \/ Malformed(l.takeoffScheduled, l.takeoffScheduledTime)
  \/ Malformed(l.takeoffActual, l.takeoffActualTime)
  \/ Malformed(l.arrivalScheduled, l.arrivalScheduledTime)
  \/ Malformed(l.landingScheduled, l.landingScheduledTime)
  \/ Malformed(l.landingActual, l.landingActualTime)

IndexText(i) == IF i = 0 THEN "0" ELSE "1"

ArrivalOrderError(i) ==
  [success |-> FALSE, type |-> "path",
   path |-> "legs[" \o IndexText(i) \o "].arrival",
   message |-> "Arrival must be after departure"]

\* C5: a leg with neither departure nor departureScheduled fails with the path
\* error legs[i].departure / 'Select a departure date', whatever its other
\* fields hold
C5_MissingDepartureDate ==
  vres # None =>
    LET l == vleg[1].leg
        i == vleg[1].index
    IN (l.departure = None /\ l.departureScheduled = None) =>
         /\ vres[1].value = None
         /\ vres[1].error =
              Some([success |-> FALSE, type |-> "path",
                    path |-> IF i = 0 THEN "legs[0].departure"
                             ELSE "legs[1].departure",
                    message |-> "Select a departure date"])

\* C5 happens: leg 1 has no departure date, a malformed arrival time and a
\* malformed scheduled departure time, and is rejected on legs[1].departure
C5_Witness ==
  /\ vres # None
  /\ vleg[1].index = 1
  /\ vleg[1].leg.departure = None
  /\ vleg[1].leg.departureScheduled = None
  /\ vleg[1].leg.arrivalTime = "bad"
  /\ vleg[1].leg.departureScheduledTime = "bad"
  /\ vres[1].error # None
  /\ vres[1].error[1].path = "legs[1].departure"

\* C6 as stated: when both instants resolve, an arrival earlier than the
\* departure always gives the error legs[i].arrival / 'Arrival must be after
\* departure', and an arrival that is not earlier never gives it
C6_Original ==
  vres # None =>
    LET l == vleg[1].leg
        i == vleg[1].index
        dep == DepInstantOf(l)
        arr == ArrInstantOf(l)
    IN (dep # None /\ arr # None) =>
         IF arr[1] < dep[1]
         THEN vres[1].error = Some(ArrivalOrderError(i))
         ELSE vres[1].error # Some(ArrivalOrderError(i))

\* C6: when both instants resolve and the arrival is earlier than the
\* departure, validation fails, and the error is legs[i].arrival / 'Arrival
\* must be after departure' unless an earlier check rejects the leg first (then
\* the error is that check's); when the arrival is not earlier, that error is
\* never produced
C6_ArrivalOrder ==
  vres # None =>
    LET l == vleg[1].leg
        i == vleg[1].index
        dep == DepInstantOf(l)
        arr == ArrInstantOf(l)
    IN (dep # None /\ arr # None) =>
         IF arr[1] < dep[1]
         THEN /\ vres[1].error # None
              /\ vres[1].value = None
              /\ (vres[1].error = Some(ArrivalOrderError(i)))
                   <=> ~EarlierCheckRejects(l)
         ELSE vres[1].error # Some(ArrivalOrderError(i))

\* C6 happens: a leg within one zone departing 10:00 and arriving 08:00 the
\* same day, rejected on legs[1].arrival
C6_Witness ==
  /\ vres # None
  /\ vleg[1].index = 1
  /\ vleg[1].leg.from.id = vleg[1].leg.to.id
  /\ DepInstantOf(vleg[1].leg) # None
  /\ ArrInstantOf(vleg[1].leg) # None
  /\ ArrInstantOf(vleg[1].leg)[1] < DepInstantOf(vleg[1].leg)[1]
  /\ vres[1].error = Some(ArrivalOrderError(1))

\* the leg of the example: 2024-01-01 10:00 at New York to 2024-01-01 08:00 at
\* Los Angeles, no other date+time pair malformed
IsExampleLeg(l) ==
  /\ l.from.tz = "America/New_York"
  /\ l.to.tz = "America/Los_Angeles"
  /\ l.departure = Some(IsoDate(Day20240101))
  /\ l.departureTime = "10:00"
  /\ l.arrival = Some(IsoDate(Day20240101))
  /\ l.arrivalTime = "08:00"
  /\ ~EarlierCheckRejects(l)

\* C7 as stated: the example leg validates with a duration of 360 minutes
C7_Original ==
  (vres # None /\ IsExampleLeg(vleg[1].leg)) =>
    /\ vres[1].error = None
    /\ vres[1].value # None
    /\ vres[1].value[1].duration = Some(360 * SecondsPerMinute)

\* C7: the example leg validates without error, with a duration of 3600
\* seconds (60 minutes): 10:00 in New York is 15:00 UTC and 08:00 in Los
\* Angeles is 16:00 UTC
C7_ExampleDuration ==
  (vres # None /\ IsExampleLeg(vleg[1].leg)) =>
    /\ vres[1].error = None
    /\ vres[1].value # None
    /\ vres[1].value[1].duration = Some(3600)
    /\ vres[1].value[1].departure = toISOString(Day20240101 * MinutesPerDay + 900)
    /\ vres[1].value[1].arrival = toISOString(Day20240101 * MinutesPerDay + 960)

\* C7 happens: the example leg has been validated
C7_Witness ==
  /\ vres # None
  /\ IsExampleLeg(vleg[1].leg)
  /\ vres[1].error = None
  /\ vres[1].value[1].duration # None

\* C8: on a validated leg the duration is (arrival - departure) in seconds when
\* both instants resolved, else the distance estimate when the airport ids
\* differ, else null
C8_Duration ==
  (vres # None /\ vres[1].error = None) =>
    LET l == vleg[1].leg
        v == vres[1].value[1]
        dep == DepInstantOf(l)
        arr == ArrInstantOf(l)
    IN /\ v.departure = IsoOrNull(dep)
       /\ v.arrival = IsoOrNull(arr)
       /\ v.duration =
            IF dep # None /\ arr # None
            THEN Some((arr[1] - dep[1]) * 60)
            ELSE IF l.from.id # l.to.id
            THEN Some(estimateFlightDuration(
                        distanceBetween(l.from, l.to) \div 1000))
            ELSE None
       /\ (l.from.id # l.to.id /\ dep # None /\ arr # None) =>
            v.duration # Some(estimateFlightDuration(
                                distanceBetween(l.from, l.to) \div 1000))

\* C8 happens: a validated leg from an airport to itself without an arrival
\* instant has no duration
C8_Witness ==
  /\ vres # None
  /\ vres[1].error = None
  /\ vleg[1].leg.from.id = vleg[1].leg.to.id
  /\ DepInstantOf(vleg[1].leg) # None
  /\ ArrInstantOf(vleg[1].leg) = None
  /\ vres[1].value[1].duration = None

(***************************************************************************)
(* Properties of the bulk import (checked under Spec).                     *)
(***************************************************************************)
\* the stored flights whose signature, read back, is key
StoredWithSignature(d, key) ==
  {f \in d.flight : signature(FlightView(d, f)) = key}

\* C1: after createManyFlights([f], U, dedupe = true) has completed, a second
\* such call by U with a flight of the same signature returns 0 / 0 and adds
\* no flight, leg or seat row
C1_ReimportIdempotent ==
  [][(/\ call.op = "createManyFlights"
      /\ call.dedupe
      /\ ~call.threw
      /\ Len(call.data) = 1
      /\ call'.op = "createManyFlights"
      /\ call'.dedupe
      /\ call'.userId = call.userId
      /\ Len(call'.data) = 1
      /\ signature(call'.data[1]) = signature(call.data[1]))
     => (/\ ~call'.threw
         /\ call'.insertedFlights = 0
         /\ call'.attachedSeats = 0
         /\ Tables(db') = Tables(db))]_vars

\* C2: when U imports (dedupe = true) a flight whose signature is that of a
\* stored flight and U holds no seat on any stored flight of that signature,
\* the call returns insertedFlights = 0 and attachedSeats >= 1, creates no
\* flight row and inserts the incoming first leg's seats on a stored first leg
C2_AttachToExisting ==
  [][(/\ call'.op = "createManyFlights"
      /\ call'.dedupe
      /\ Len(call'.data) = 1
      /\ Len(call'.data[1].legs[1].seats) > 0
      /\ StoredWithSignature(db, signature(call'.data[1])) # {}
      /\ \A e \in StoredWithSignature(db, signature(call'.data[1])) :
           ~HoldsSeat(db, e.id, call'.userId))
     => (/\ ~call'.threw
         /\ call'.insertedFlights = 0
         /\ call'.attachedSeats >= 1
         /\ db'.flight = db.flight
         /\ \E e \in StoredWithSignature(db, signature(call'.data[1])) :
              \A i \in 1..Len(call'.data[1].legs[1].seats) :
                \E row \in db'.seat \ db.seat :
                   /\ row.legId = FlightView(db, e).legs[1].id
                   /\ row.userId = call'.data[1].legs[1].seats[i].userId)]_vars

\* a batch the store's seat constraints accept: no leg names a user or a guest
\* twice
ValidBatch(data) ==
  \A k \in 1..Len(data) : \A n \in 1..Len(data[k].legs) :
    LET seats == data[k].legs[n].seats
    IN \A i \in 1..Len(seats) : \A j \in 1..Len(seats) :
         i # j =>
           /\ (seats[i].userId # NULL => seats[i].userId # seats[j].userId)
           /\ (seats[i].guestName # NULL =>
                 seats[i].guestName # seats[j].guestName)

PairOf(s) == <<s.legId, s.userId>>

\* the position of the first queued row with the pair of row k
FirstQueued(k) ==
  CHOOSE j \in 1..k :
    /\ PairOf(queue[j]) = PairOf(queue[k])
    /\ \A m \in 1..(j - 1) : PairOf(queue[m]) # PairOf(queue[k])

\* C4: the rows sent to the store hold one row per (legId, userId) pair of the
\* queue, the first queued of each pair, and attachedSeats counts each once
C4_AttachDedup ==
  sent # None =>
    LET rows == sent[1]
    IN /\ \A i \in 1..Len(rows) : \A j \in 1..Len(rows) :
            i # j => PairOf(rows[i]) # PairOf(rows[j])
       /\ \A k \in 1..Len(queue) :
            \E i \in 1..Len(rows) : rows[i] = queue[FirstQueued(k)]
       /\ Len(rows) = Cardinality({PairOf(queue[k]) : k \in 1..Len(queue)})
       /\ ~call.threw =>
            /\ call.attachedSeats = Len(rows)
            /\ AttachDb.seat \subseteq db.seat
            /\ Cardinality(db.seat) = Cardinality(AttachDb.seat) + Len(rows)
            /\ \A i \in 1..Len(rows) :
                 \E r \in db.seat \ AttachDb.seat :
                    /\ PairOf(r) = PairOf(rows[i])
                    /\ r.seatNumber = rows[i].seatNumber

\* C4 happens: two seats of u1 on one leg were queued with different seat
\* numbers, and one row, the first queued, was inserted
C4_Witness ==
  /\ sent # None
  /\ ~call.threw
  /\ Len(queue) = 2
  /\ PairOf(queue[1]) = PairOf(queue[2])
  /\ queue[1].userId = "u1"
  /\ queue[1].seatNumber # queue[2].seatNumber
  /\ sent[1] = <<queue[1]>>
  /\ call.attachedSeats = 1
  /\ Cardinality(db.seat) = Cardinality(AttachDb.seat) + 1

(***************************************************************************)
(* Properties of the single-flight save (checked under SpecSave).          *)
(***************************************************************************)
\* C9: validateAndSaveFlight never throws, whatever store operation fails
C9_NeverThrows ==
  call.op = "validateAndSaveFlight" => ~call.threw

\* some leg of the submitted flight fails validation
SomeLegInvalid(data) ==
  \E i \in 1..Len(data.legs) :
    validateAndProcessLeg(data.legs[i], i - 1).error # None

\* C10: when a leg of the submitted flight fails validation, the call leaves
\* the store as it was and returns a path error
C10_NoWriteOnInvalidLeg ==
  [][(/\ call'.op = "validateAndSaveFlight"
      /\ SomeLegInvalid(call'.data))
     => (/\ db' = db
         /\ ~call'.threw
         /\ call'.result.success = FALSE
         /\ call'.result.type = "path")]_vars

\* C10 happens: an update of a stored flight whose first leg validates and
\* whose second leg does not was refused on legs[1].departure
C10_Witness ==
  /\ call.op = "validateAndSaveFlight"
  /\ call.data.id # 0
  /\ \E f \in db.flight : f.id = call.data.id
  /\ Len(call.data.legs) = 2
  /\ validateAndProcessLeg(call.data.legs[1], 0).error = None
  /\ validateAndProcessLeg(call.data.legs[2], 1).error # None
  /\ ~call.threw
  /\ call.result.success = FALSE
  /\ call.result.type = "path"
  /\ call.result.path = "legs[1].departure"

(***************************************************************************)
(* Further properties of leg validation (checked under SpecLeg).           *)
(***************************************************************************)
\* the date the leg departs on: departure ?? departureScheduled
PrimaryDepartureDateOf(l) ==
  IF l.departure # None THEN l.departure ELSE l.departureScheduled

\* an arrival time without an arrival date, on a leg nothing else rejects
ArrivalTimeOnly(l) ==
  /\ l.arrival = None
  /\ Truthy(l.arrivalTime)
  /\ TimeOfDay(l.arrivalTime) # None
  /\ PrimaryDepartureDateOf(l) # None
  /\ ~EarlierCheckRejects(l)
  /\ ~Malformed(l.departure, l.departureTime)

\* C17: an arrival time without an arrival date is resolved on the leg's
\* departure date (departure, else departureScheduled) in the destination
\* zone; the leg is not rejected unless that instant precedes the departure
C17_ArrivalDateDefault ==
  (vres # None /\ ArrivalTimeOnly(vleg[1].leg)) =>
    LET l == vleg[1].leg
        arr == mergeTimeWithDate(PrimaryDepartureDateOf(l)[1], l.arrivalTime,
                                 l.to.tz)
    IN \/ /\ vres[1].error = None
          /\ vres[1].value[1].arrival = IsoOrNull(arr)
       \/ /\ vres[1].error = Some(ArrivalOrderError(vleg[1].index))
          /\ arrivalBeforeDeparture(arr, DepInstantOf(l))

\* C18: validateAndProcessLeg leaves every field of the input leg as it was
C18_NoSideEffects ==
  vres # None => vres[1].leg = vleg[1].leg

(***************************************************************************)
(* Further properties of the single-flight save (checked under SpecSave).  *)
(***************************************************************************)
Forbidden ==
  [success |-> FALSE, type |-> "httpError", status |-> 403,
   message |-> "Flight not found or you do not have a seat on this flight"]

DateStrings ==
  {IsoDate(Day20240101),
   [day |-> Day20240101, min |-> 600, off |-> 0],
   [day |-> Day20240101, min |-> 1410, off |-> -300]}

DateLegs ==
  {LegInput(Airport(JFK), Airport(LAX), dep, "10:00", sched, NULL, None, NULL,
            NoOther, <<Seat("u1", NULL, "1A")>>) :
     dep \in {None} \cup {Some(x) : x \in DateStrings},
     sched \in {None, Some(IsoDate(Day20240101 + 1))}}

DateInputs == {[id |-> id, legs |-> <<l>>] : id \in 0..MaxSaved, l \in DateLegs}

ZoneOffsets == {0, -300, 840}

ValidateAndSaveFlightZoned == SaveStep(DateInputs, {"none"}, ZoneOffsets)

NextDate == ValidateAndSaveFlightZoned

SpecDate == Init /\ [][NextDate]_vars

\* C14: after a successful save the stored flight's date is the calendar date
\* the first leg's departure (else departureScheduled) names at the origin
\* airport, whatever zone the server runs in
C14_DateInOriginZone ==
  [][(/\ call'.op = "validateAndSaveFlight"
      /\ ~call'.threw
      /\ call'.result.success)
     => LET id == IF call'.data.id # 0 THEN call'.data.id
                  ELSE call'.result.id
            first == call'.data.legs[1]
        IN \E f \in db'.flight :
             /\ f.id = id
             /\ f.date = DateName(PrimaryDepartureDateOf(first)[1].day)]_vars

(***************************************************************************)
(* The write primitives on their own: flights of one or two legs, a leg    *)
(* that names u1 twice among them, and a connection that may fail after    *)
(* the statements of the first cut legs.                                   *)
(***************************************************************************)
MaxTxFlights == 2   \* flight rows the store may hold in the primitive runs
MaxTxLegSeq == 4    \* leg ids the primitive runs may hand out

TxLegs ==
  {ImportLeg(Some(Airport(JFK)), <<Seat("u1", NULL, "1A")>>),
   ImportLeg(Some(Airport(JFK)), <<Seat("u2", NULL, "1B")>>),
   ImportLeg(Some(Airport(JFK)),
             <<Seat("u1", NULL, "1A"), Seat("u1", NULL, "2B")>>)}

TxFlights ==
  {[date |-> "2024-01-01", legs |-> legs] :
     legs \in [1..1 -> TxLegs] \cup [1..2 -> TxLegs]}

\* the statements up to and including those of leg cut
Prefix(data, cut) == [data EXCEPT !.legs = SubSeq(data.legs, 1, cut)]

\* the body failing after its statements so far
Abort(r) == [r EXCEPT !.ok = FALSE]

\* cut legs' statements run before the connection fails; past the last leg:
\* no failure
Cuts(data) == 0..(Len(data.legs) + 1)

NoCut(data) == Len(data.legs) + 1

CreateFlightTx ==
  \E data \in TxFlights : \E cut \in Cuts(data) :
    /\ Cardinality(db.flight) < MaxTxFlights
    /\ db.seq.leg + Len(data.legs) <= MaxTxLegSeq + 1
    /\ LET r == IF cut = NoCut(data) THEN createFlightPrimitive(db, data)
                ELSE Transaction(db, Abort(InsertFlight(db, Prefix(data, cut))))
       IN /\ db' = r.db
          /\ call' = [op |-> "createFlightPrimitive", data |-> data,
                      cut |-> cut, ok |-> r.ok, id |-> r.id]
    /\ UNCHANGED <<vleg, vres, queue, sent>>

UpdateFlightTx ==
  \E data \in TxFlights, id \in 1..(MaxTxFlights + 1) : \E cut \in Cuts(data) :
    /\ db.seq.leg + Len(data.legs) <= MaxTxLegSeq + 1
    /\ LET r == IF cut = NoCut(data) THEN updateFlightPrimitive(db, id, data)
                ELSE Transaction(db, Abort(UpdateBody(db, id, Prefix(data, cut))))
       IN /\ db' = r.db
          /\ call' = [op |-> "updateFlightPrimitive", data |-> data,
                      cut |-> cut, ok |-> r.ok, id |-> id]
    /\ UNCHANGED <<vleg, vres, queue, sent>>

NextTx == CreateFlightTx \/ UpdateFlightTx

SpecTx == Init /\ [][NextTx]_vars

\* the legs of a flight as stored, in order, each with its seats
StoredLegs(d, id) ==
  IF \E f \in d.flight : f.id = id
  THEN FlightView(d, CHOOSE f \in d.flight : f.id = id).legs
  ELSE <<>>

\* the flight is stored with exactly the legs and seats of data
StoredAs(d, id, data) ==
  LET legs == StoredLegs(d, id)
  IN /\ \E f \in d.flight : f.id = id /\ f.date = data.date
     /\ Len(legs) = Len(data.legs)
     /\ \A i \in 1..Len(legs) :
          {<<s.userId, s.guestName, s.seatNumber>> : s \in legs[i].seats}
            = {<<data.legs[i].seats[j].userId, data.legs[i].seats[j].guestName,
                 data.legs[i].seats[j].seatNumber>> :
                 j \in 1..Len(data.legs[i].seats)}

\* C11: a create or update that fails at any statement leaves the store as it
\* was before the call; one that succeeds stores the flight with all its legs
\* and seats
C11_AllOrNothing ==
  [][(call'.op \in {"createFlightPrimitive", "updateFlightPrimitive"})
     => IF call'.ok
        THEN StoredAs(db', call'.id, call'.data)
        ELSE Tables(db') = Tables(db)]_vars

\* C11 happens: an update of a stored flight failed at its second leg's seats,
\* after the old legs were deleted and the first new leg was inserted, and the
\* flight still has the legs it had
C11_Witness ==
  /\ call.op = "updateFlightPrimitive"
  /\ ~call.ok
  /\ call.cut = NoCut(call.data)
  /\ Len(call.data.legs) = 2
  /\ Len(call.data.legs[1].seats) = 1
  /\ Len(call.data.legs[2].seats) = 2
  /\ \E f \in db.flight : f.id = call.id
  /\ Len(StoredLegs(db, call.id)) = 1

(***************************************************************************)
(* createManyFlights step by step.  Every await of the function is a step  *)
(* of its own, and between two steps a request of another session may      *)
(* commit a write.  call holds the locals of the call in flight; log lists *)
(* the store operations the call has issued so far.                        *)
(***************************************************************************)
MaxStepBatch == 2
MaxStepStored == 3
MaxStepLegSeq == 4

StepFlights ==
  {ImportFlight("2024-01-01", Some(Airport(JFK)), <<Seat("u1", NULL, "1A")>>),
   ImportFlight("2024-01-01", Some(Airport(JFK)),
                <<Seat("u1", NULL, "1A"), Seat("u2", NULL, "1B")>>),
   ImportFlight("2024-01-02", Some(Airport(JFK)), <<Seat("u1", NULL, "1A")>>)}

StepBatches == UNION {[1..k -> StepFlights] : k \in 0..MaxStepBatch}

\* what another session writes: a flight with a seat of u2 only
OtherFlights ==
  {ImportFlight("2024-01-01", Some(Airport(JFK)), <<Seat("u2", NULL, "1B")>>)}

InFlight == call.op = "createManyFlights" /\ call.pc # "done"

FlightIds(d) == {f.id : f \in d.flight}

\* variant: a failed attach deletes the flights the call has just inserted
attachFailureUndo(d, insertedIds) ==
  LET legs == {l.id : l \in {x \in d.leg : x.flightId \in insertedIds}}
  IN [d EXCEPT !.flight = {f \in @ : f.id \notin insertedIds},
               !.leg = {l \in @ : l.flightId \notin insertedIds},
               !.seat = {s \in @ : s.legId \notin legs}]

\* the store after the seat insert of the attach phase threw: the throw
\* leaves createManyFlights, nothing catches it and nothing is undone
attachFailure(d, insertedIds) == d

Done(c, threw) == [c EXCEPT !.pc = "done", !.threw = threw]

\* the call up to its first await: the dedupe = false path goes straight to
\* the bulk insert, an empty batch returns at once
StepBegin ==
  \E data \in StepBatches, userId \in Users, dedupe \in BOOLEAN :
    /\ ~InFlight
    /\ Cardinality(db.flight) + Len(data) <= MaxStepStored
    /\ LET unique == IF dedupe THEN uniqueFlights(data) ELSE data
           c == [op |-> "createManyFlights", pc |-> "fetch", data |-> data,
                 userId |-> userId, dedupe |-> dedupe, unique |-> unique,
                 existing |-> <<>>, flightsToInsert |-> <<>>,
                 seatsToAttach |-> <<>>, insertedIds |-> {}, threw |-> FALSE,
                 insertedFlights |-> 0, attachedSeats |-> 0, log |-> <<>>]
       IN call' = IF ~dedupe
                  THEN [c EXCEPT !.pc = "insert", !.flightsToInsert = data]
                  ELSE IF Len(unique) = 0 THEN Done(c, FALSE)
                  ELSE c
    /\ UNCHANGED <<db, vleg, vres, queue, sent>>

\* the existing-flight query and its filter
StepFetch ==
  /\ InFlight /\ call.pc = "fetch"
  /\ \E rows \in Orderings(QueryRows(db, call.userId, call.unique)) :
       call' = [call EXCEPT
                  !.pc = "seats",
                  !.existing = existingFlights(db, rows, call.unique),
                  !.log = IF Lookup(call.unique) THEN Append(@, "fetch")
                          ELSE @]
  /\ UNCHANGED <<db, vleg, vres, queue, sent>>

\* the seat query over the existing ids, then the loop over uniqueFlights
StepSeats ==
  /\ InFlight /\ call.pc = "seats"
  /\ LET seatHolder == userSeatByFlight(db, call.userId, call.existing)
         plan == Decide(call.unique, call.existing, seatHolder, 1)
     IN call' = [call EXCEPT
                   !.pc = "insert",
                   !.flightsToInsert = plan.flightsToInsert,
                   !.seatsToAttach = plan.seatsToAttach,
                   !.log = IF Len(call.existing) > 0 THEN Append(@, "seats")
                           ELSE @]
  /\ UNCHANGED <<db, vleg, vres, queue, sent>>

\* variant: the queued flights are inserted one call at a time
StepInsertOneByOne ==
  /\ InFlight /\ call.pc = "insert"
  /\ LET flights == call.flightsToInsert
         r == IF Len(flights) > 0 THEN createFlightPrimitive(db, flights[1])
              ELSE [ok |-> TRUE, db |-> db]
         c == [call EXCEPT
                 !.log = IF Len(flights) > 0 THEN Append(@, "insertMany")
                         ELSE @,
                 !.insertedIds = @ \cup (FlightIds(r.db) \ FlightIds(db))]
     IN /\ db' = r.db
        /\ call' = IF ~r.ok THEN Done(c, TRUE)
                   ELSE IF Len(flights) > 1
                   THEN [c EXCEPT !.flightsToInsert = Tail(@),
                                  !.insertedFlights = @ + 1]
                   ELSE IF ~call.dedupe THEN Done(c, FALSE)
                   ELSE [c EXCEPT !.pc = "attach",
                                  !.insertedFlights = @ + Len(flights)]
  /\ UNCHANGED <<vleg, vres, queue, sent>>

\* the bulk insert of flightsToInsert
StepInsert ==
  /\ InFlight /\ call.pc = "insert"
  /\ LET flights == call.flightsToInsert
         r == IF Len(flights) > 0 THEN createManyFlightsPrimitive(db, flights)
              ELSE [ok |-> TRUE, db |-> db]
         c == [call EXCEPT
                 !.log = IF Len(flights) > 0 THEN Append(@, "insertMany")
                         ELSE @]
     IN /\ db' = r.db
        /\ call' =
             IF ~r.ok THEN Done(c, TRUE)
             ELSE IF ~call.dedupe
             THEN [Done(c, FALSE) EXCEPT
                     !.insertedFlights = Len(flights),
                     !.attachedSeats =
                        SeqSum([i \in 1..Len(flights) |-> SeatCount(flights[i])])]
             ELSE [c EXCEPT !.pc = "attach",
                            !.insertedIds = FlightIds(r.db) \ FlightIds(db),
                            !.insertedFlights = Len(flights)]
  /\ UNCHANGED <<vleg, vres, queue, sent>>

\* the bulk seat insert of the de-duplicated seatsToAttach
StepAttach ==
  /\ InFlight /\ call.pc = "attach"
  /\ LET r == AttachPhase(db, call.seatsToAttach)
         c == [call EXCEPT
                 !.log = IF Len(r.rows) > 0 THEN Append(@, "attachMany")
                         ELSE @]
     IN /\ db' = IF r.threw THEN attachFailure(r.db, call.insertedIds)
                 ELSE r.db
        /\ call' = IF r.threw THEN Done(c, TRUE)
                   ELSE [Done(c, FALSE) EXCEPT
                           !.attachedSeats = r.attachedSeats]
  /\ UNCHANGED <<vleg, vres, queue, sent>>

\* a request of another session commits between two steps: it replaces the
\* legs of a stored flight
OtherUpdate ==
  \E id \in FlightIds(db), data \in OtherFlights :
    /\ InFlight
    /\ db.seq.leg <= MaxStepLegSeq
    /\ db' = updateFlightPrimitive(db, id, data).db
    /\ UNCHANGED <<call, vleg, vres, queue, sent>>

NextSteps ==
  StepBegin \/ StepFetch \/ StepSeats \/ StepInsert \/ StepAttach \/ OtherUpdate

SpecSteps == Init /\ [][NextSteps]_vars

\* C12: when the attach phase of a deduplicating createManyFlights call
\* fails after its bulk insert succeeded, the step that fails changes no
\* row of the store, and the flights the call inserted are still stored
\* with legs and seats.
C12_AttachFailureKeepsInserted ==
  [][(/\ InFlight /\ call.pc = "attach"
      /\ call'.pc = "done" /\ call'.threw)
     => /\ Tables(db') = Tables(db)
        /\ \A id \in call.insertedIds :
             /\ id \in FlightIds(db')
             /\ \E l \in db'.leg :
                  l.flightId = id /\ \E s \in db'.seat : s.legId = l.id]_vars

\* a call whose bulk insert stored a flight and whose attach then threw
C12_Witness ==
  /\ call.op = "createManyFlights"
  /\ call.pc = "done" /\ call.threw
  /\ call.insertedFlights > 0
  /\ Len(call.seatsToAttach) > 0
  /\ call.log[Len(call.log)] = "attachMany"
  /\ call.insertedIds # {}
  /\ call.insertedIds \subseteq FlightIds(db)

(***************************************************************************)
(* The flight router's write endpoints.  create and createMany take their  *)
(* input as z.custom<CreateFlight>(), which checks nothing, so a request   *)
(* may carry any value of that type: a flight with no legs, a leg with no  *)
(* seats.                                                                  *)
(***************************************************************************)
MaxRouterStored == 2

RouterFlights ==
  {ImportFlight("2024-01-01", Some(Airport(JFK)), <<Seat("u1", NULL, "1A")>>),
   ImportFlight("2024-01-01", Some(Airport(JFK)),
                <<Seat("u1", NULL, "1A"), Seat("u2", NULL, "1B")>>),
   ImportFlight("2024-01-02", Some(Airport(JFK)), <<>>),
   [date |-> "2024-01-02", legs |-> <<>>]}

RouterBatches == UNION {[1..k -> RouterFlights] : k \in 0..MaxBatch}

\* db.deleteFrom('flight').where('id', '=', id): the flight row, its legs and
\* their seats (ON DELETE CASCADE on leg_flight_id_fkey and seat_leg_id_fkey)
deleteFlight(d, id) ==
  LET legs == {l.id : l \in {x \in d.leg : x.flightId = id}}
  IN [numDeletedRows |-> Cardinality({f \in d.flight : f.id = id}),
      db |-> [d EXCEPT !.flight = {f \in @ : f.id # id},
                       !.leg = {l \in @ : l.flightId # id},
                       !.seat = {s \in @ : s.legId \notin legs}]]

RouterCreate ==
  \E user \in Users, input \in RouterFlights :
    /\ Cardinality(db.flight) < MaxRouterStored
    /\ LET r == createFlightPrimitive(db, input)
       IN /\ db' = r.db
          /\ call' = [op |-> "create", user |-> user, input |-> input,
                      threw |-> ~r.ok]
    /\ UNCHANGED <<vleg, vres, queue, sent>>

RouterCreateMany ==
  \E user \in Users, flights \in RouterBatches, dedupe \in BOOLEAN :
    /\ Cardinality(db.flight) + Len(flights) <= MaxRouterStored
    /\ \E rows \in Orderings(IF dedupe
                             THEN QueryRows(db, user, uniqueFlights(flights))
                             ELSE {}) :
         LET r == createManyFlights(db, flights, user, dedupe, rows)
         IN /\ db' = r.db
            /\ call' = [op |-> "createMany", user |-> user,
                        input |-> flights, threw |-> r.threw]
    /\ UNCHANGED <<vleg, vres, queue, sent>>

RouterDelete ==
  \E user \in Users, input \in 1..MaxRouterStored :
    /\ LET owns == HoldsSeat(db, input, user)
           resp == deleteFlight(db, input)
       IN /\ db' = IF owns THEN resp.db ELSE db
          /\ call' = [op |-> "delete", user |-> user, input |-> input,
                      threw |-> ~owns \/ resp.numDeletedRows = 0]
    /\ UNCHANGED <<vleg, vres, queue, sent>>

NextRouter == RouterCreate \/ RouterCreateMany \/ RouterDelete

SpecRouter == Init /\ [][NextRouter]_vars

\* C15: in every store state the write entry points can produce, every
\* stored flight has at least one leg and every stored leg has at least one
\* seat.
C15_LegsAndSeats ==
  /\ \A f \in db.flight : \E l \in db.leg : l.flightId = f.id
  /\ \A l \in db.leg : \E s \in db.seat : s.legId = l.id

(***************************************************************************)
(* Every statement that writes seat rows: the two single-flight            *)
(* primitives, the bulk insert and the seat insert of the attach phase,    *)
(* the latter with rows for a stored leg.                                  *)
(***************************************************************************)
MaxWriteFlights == 1   \* flight rows the store may hold in these runs
MaxWriteLegSeq == 2    \* leg ids these runs may hand out
MaxWriteSeatSeq == 3   \* seat ids these runs may hand out before an attach

WriteFlights ==
  {ImportFlight("2024-01-01", Some(Airport(JFK)), seats) :
     seats \in {<<Seat("u1", NULL, "1A")>>,
                <<Seat("u1", NULL, "1A"), Seat("u1", NULL, "2B")>>,
                <<Seat("u1", NULL, "1A"), Seat(NULL, "Ann", NULL)>>,
                <<Seat(NULL, "Ann", "1A"), Seat(NULL, "Ann", "2B")>>}}
  \cup {[date |-> "2024-01-01",
          legs |-> <<ImportLeg(Some(Airport(JFK)), <<Seat("u1", NULL, "1A")>>),
                     ImportLeg(Some(Airport(LAX)),
                               <<Seat("u2", NULL, "1B")>>)>>]}

WriteBatches == UNION {[1..k -> WriteFlights] : k \in 1..MaxWriteFlights}

\* queues of seat rows for one stored leg
WriteQueues ==
  UNION {UNION {[1..k ->
                  {[legId |-> l.id, userId |-> p[1], guestName |-> p[2],
                    seatNumber |-> "1A"] :
                     p \in {<<"u1", NULL>>, <<"u2", NULL>>, <<NULL, "Ann">>}}] :
                k \in 1..MaxQueue} : l \in db.leg}

CreateFlightW ==
  \E data \in WriteFlights :
    /\ Cardinality(db.flight) < MaxWriteFlights
    /\ db.seq.leg <= MaxWriteLegSeq
    /\ LET r == createFlightPrimitive(db, data)
       IN /\ db' = r.db
          /\ call' = [op |-> "createFlightPrimitive", data |-> data,
                      ok |-> r.ok]
    /\ UNCHANGED <<vleg, vres, queue, sent>>

UpdateFlightW ==
  \E data \in WriteFlights, id \in FlightIds(db) :
    /\ db.seq.leg <= MaxWriteLegSeq
    /\ LET r == updateFlightPrimitive(db, id, data)
       IN /\ db' = r.db
          /\ call' = [op |-> "updateFlightPrimitive", data |-> data,
                      ok |-> r.ok, id |-> id]
    /\ UNCHANGED <<vleg, vres, queue, sent>>

CreateManyW ==
  \E data \in WriteBatches :
    /\ Cardinality(db.flight) + Len(data) <= MaxWriteFlights
    /\ db.seq.leg + Len(data) <= MaxWriteLegSeq + 1
    /\ LET r == createManyFlightsPrimitive(db, data)
       IN /\ db' = r.db
          /\ call' = [op |-> "createManyFlightsPrimitive", data |-> data,
                      ok |-> r.ok]
    /\ UNCHANGED <<vleg, vres, queue, sent>>

AttachW ==
  \E seatsToAttach \in WriteQueues :
    /\ db.seq.seat <= MaxWriteSeatSeq
    /\ LET r == AttachPhase(db, seatsToAttach)
       IN /\ db' = r.db
          /\ call' = [op |-> "attach", data |-> seatsToAttach,
                      ok |-> ~r.threw]
    /\ UNCHANGED <<vleg, vres, queue, sent>>

NextWrites == CreateFlightW \/ UpdateFlightW \/ CreateManyW \/ AttachW

SpecWrites == Init /\ [][NextWrites]_vars

\* at most one seat row per (leg, userId) and per (leg, guestName), nulls apart
SeatsUnique(d) ==
  \A s1 \in d.seat : \A s2 \in d.seat :
    (s1.id # s2.id /\ s1.legId = s2.legId) =>
       /\ (s1.userId # NULL => s1.userId # s2.userId)
       /\ (s1.guestName # NULL => s1.guestName # s2.guestName)

\* the rows of one statement name a user or a guest twice on a leg, or one
\* that the leg already seats
Collides(d, rows) ==
  \E i \in 1..Len(rows) :
    \/ \E j \in 1..Len(rows) :
         /\ i # j /\ rows[i].legId = rows[j].legId
         /\ \/ rows[i].userId # NULL /\ rows[i].userId = rows[j].userId
            \/ rows[i].guestName # NULL /\ rows[i].guestName = rows[j].guestName
    \/ \E s \in d.seat :
         /\ s.legId = rows[i].legId
         /\ \/ rows[i].userId # NULL /\ rows[i].userId = s.userId
            \/ rows[i].guestName # NULL /\ rows[i].guestName = s.guestName

SelfCollides(seats) == Collides(EmptyDb, LegSeatData(0, seats))

\* the rows the call submits would put a user or a guest twice on a leg
WouldDuplicate(d, c) ==
  IF c.op = "attach" THEN Collides(d, uniqueSeats(c.data))
  ELSE IF c.op = "createManyFlightsPrimitive"
  THEN \E k \in 1..Len(c.data) : \E i \in 1..Len(c.data[k].legs) :
         SelfCollides(c.data[k].legs[i].seats)
  ELSE \E i \in 1..Len(c.data.legs) : SelfCollides(c.data.legs[i].seats)

\* C16: after every create, update, bulk insert and seat attachment the store
\* holds at most one seat per (leg, userId) and per (leg, guestName), nulls
\* apart; a call whose rows would duplicate one fails, and a call that fails
\* leaves the flight, leg and seat tables as they were.
C16_SeatUniqueness ==
  [][/\ SeatsUnique(db')
     /\ WouldDuplicate(db, call') => ~call'.ok
     /\ ~call'.ok => Tables(db') = Tables(db)]_vars

\* an attach was rejected as a whole: one of its rows names guest Ann for a
\* leg that seats Ann already, another row of it was for a free place
C16_Witness ==
  /\ call.op = "attach" /\ ~call.ok
  /\ Len(uniqueSeats(call.data)) = 2
  /\ \E i \in 1..Len(call.data) :
       /\ call.data[i].guestName = "Ann"
       /\ \E s \in db.seat :
            s.legId = call.data[i].legId /\ s.guestName = "Ann"
  /\ \E i \in 1..Len(call.data) :
       /\ call.data[i].userId # NULL
       /\ ~\E s \in db.seat :
             s.legId = call.data[i].legId /\ s.userId = call.data[i].userId

\* the positions of a batch that hold the first flight of their signature
FirstOccurrences(data) ==
  {i \in 1..Len(data) :
     \A j \in 1..(i - 1) : signature(data[j]) # signature(data[i])}

\* C19: in a deduplicating createManyFlights call, every flight queued for
\* insertion and every seat queued for attachment comes from the earliest
\* flight of the batch with its signature, no two queued flights share a
\* signature, and the bulk insert stores exactly the queued flights.
C19_FirstOccurrenceWins ==
  [][(call'.op = "createManyFlights" /\ call'.dedupe) =>
       LET data == call'.data
           firsts == FirstOccurrences(data)
           toInsert == call'.flightsToInsert
           toAttach == call'.seatsToAttach
       IN /\ \A k \in 1..Len(toInsert) : \E i \in firsts : toInsert[k] = data[i]
          /\ \A k \in 1..Len(toInsert) : \A m \in 1..Len(toInsert) :
               signature(toInsert[k]) = signature(toInsert[m]) => k = m
          /\ \A k \in 1..Len(toAttach) : \E i \in firsts :
               \E j \in 1..Len(data[i].legs[1].seats) :
                  LET seat == data[i].legs[1].seats[j]
                  IN /\ toAttach[k].userId = seat.userId
                     /\ toAttach[k].guestName = seat.guestName
                     /\ toAttach[k].seatNumber = seat.seatNumber
          /\ (InFlight /\ call.pc = "insert" /\ call'.pc = "attach") =>
               /\ Cardinality(FlightIds(db') \ FlightIds(db)) = Len(toInsert)
               /\ Len(toInsert) <= Cardinality(firsts)]_vars

\* a batch of two different flights with one signature was imported: one
\* flight was inserted, and it is stored with the seats of the first
C19_Witness ==
  /\ call.op = "createManyFlights" /\ call.dedupe
  /\ call.pc = "done" /\ ~call.threw
  /\ Len(call.data) = 2
  /\ signature(call.data[1]) = signature(call.data[2])
  /\ call.data[1] # call.data[2]
  /\ call.insertedFlights = 1
  /\ \E id \in call.insertedIds : StoredAs(db, id, call.data[1])

\* the place of a store operation in the order fetch, seat lookup, bulk
\* flight insert, bulk seat insert
OpRank(op) ==
  IF op = "fetch" THEN 1
  ELSE IF op = "seats" THEN 2
  ELSE IF op = "insertMany" THEN 3
  ELSE 4

\* C20: the store operations one createManyFlights call issues are, in this
\* order and each at most once, the candidate fetch, the seat lookup, the
\* bulk flight insert and the bulk seat insert; once the call has reached its
\* writes, the flights and seats it decided to write no longer change.
C20_ReadsBeforeWrites ==
  [][/\ call'.op = "createManyFlights" =>
          \A i \in 1..Len(call'.log) : \A j \in 1..Len(call'.log) :
             i < j => OpRank(call'.log[i]) < OpRank(call'.log[j])
     /\ (InFlight /\ call.pc \in {"insert", "attach"}) =>
          /\ call'.flightsToInsert = call.flightsToInsert
          /\ call'.seatsToAttach = call.seatsToAttach]_vars

\* a call that issued all four operations
C20_Witness ==
  /\ call.op = "createManyFlights"
  /\ call.pc = "done"
  /\ call.log = <<"fetch", "seats", "insertMany", "attachMany">>

(***************************************************************************)
(* The AirTrail file import.  A file lists its users under the ids of the  *)
(* exporting instance and its seats refer to those ids; resolveSeats maps  *)
(* them to the registered users of this instance.                          *)
(***************************************************************************)
MaxFileSeats == 2
MaxFileLegs == 2

\* api.user.list.query(): the registered users, usernames unique
RegisteredUsers ==
  <<[id |-> "u1", username |-> "alice"], [id |-> "u2", username |-> "bob"]>>

FileUser(id, username, displayName) ==
  [id |-> id, username |-> username, displayName |-> displayName]

\* data.users: the exporter alone, two users with the usernames registered
\* here, and the exporter under a username nobody has here
FileUserLists ==
  {<<FileUser("f1", "alice", "Alice A")>>,
   <<FileUser("f1", "alice", "Alice A"), FileUser("f2", "bob", "Bob B")>>,
   <<FileUser("f1", "carol", "Carol C"), FileUser("f2", "bob", "Bob B")>>}

\* options.userMapping: none, a file user mapped to a registered user, a
\* file user mapped to an id that is not registered
FileIds == {"f1", "f2"}

UserMappings ==
  {[i \in FileIds |-> NULL],
   [i \in FileIds |-> IF i = "f1" THEN "u2" ELSE NULL],
   [i \in FileIds |-> IF i = "f2" THEN "u1" ELSE NULL],
   [i \in FileIds |-> IF i = "f2" THEN "u9" ELSE NULL]}

\* one seat as seatSchema accepts it: userId ?? guestName is truthy
RawSeats ==
  {Seat("f1", NULL, "1A"), Seat("f2", NULL, "1B"), Seat("f9", NULL, "1C"),
   Seat("f1", "Al", "1A"), Seat(NULL, "Ann", NULL)}

\* seatSchema on the array: at least one seat, some seat with a userId
SeatsAccepted(seats) ==
  /\ Len(seats) >= 1
  /\ \A i \in 1..Len(seats) :
       IF seats[i].userId # NULL THEN seats[i].userId # ""
       ELSE seats[i].guestName # NULL /\ seats[i].guestName # ""
  /\ \E i \in 1..Len(seats) : Truthy(seats[i].userId)

RawSeatLists ==
  {s \in UNION {[1..k -> RawSeats] : k \in 1..MaxFileSeats} : SeatsAccepted(s)}

\* s[the first index in hits], None when hits is empty: Array.prototype.find
FirstOf(s, hits) ==
  IF hits = {} THEN None
  ELSE Some(s[CHOOSE i \in hits : \A j \in hits : i <= j])

\* users.find((user) => user.id === id)
userById(users, id) ==
  FirstOf(users, {i \in 1..Len(users) : users[i].id = id})

\* users.find((user) => user.username === username)
userByUsername(users, username) ==
  FirstOf(users, {i \in 1..Len(users) : users[i].username = username})

\* dataUsers[id]: the reduce keeps the last user of each id
dataUser(fileUsers, id) ==
  LET hits == {i \in 1..Len(fileUsers) : fileUsers[i].id = id}
  IN IF id = NULL \/ hits = {} THEN None
     ELSE Some(fileUsers[CHOOSE i \in hits : \A j \in hits : i >= j])

\* exportedUsers: each file user with the registered id it maps to
exportedUsers(fileUsers, userMapping, users) ==
  [i \in 1..Len(fileUsers) |->
     LET exportedUser == fileUsers[i]
         byName == userByUsername(users, exportedUser.username)
     IN [id |-> exportedUser.id, username |-> exportedUser.username,
         displayName |-> exportedUser.displayName,
         mappedUserId |->
           IF userMapping[exportedUser.id] # NULL
           THEN userMapping[exportedUser.id]
           ELSE IF byName # None THEN byName[1].id ELSE NULL]]

\* the body of rawSeats.map in resolveSeats
resolveSeat(seat, fileUsers, exported, users) ==
  LET du == dataUser(fileUsers, seat.userId)
      eu == IF du = None THEN None
            ELSE userById(exported, du[1].id)
      mappedUserId == IF eu = None THEN NULL ELSE eu[1].mappedUserId
      user == IF Truthy(mappedUserId)
              THEN userById(users, mappedUserId)
              ELSE None
  IN Seat(IF user # None THEN user[1].id ELSE NULL,
          IF user # None THEN NULL
          ELSE IF Truthy(seat.guestName) THEN seat.guestName
          ELSE IF du # None THEN du[1].displayName
          ELSE NULL,
          seat.seatNumber)

\* whether some seat belongs to a registered user with the username of the
\* importing user
HasCurrentUser(seats, users, currentUser) ==
  \E i \in 1..Len(seats) :
    LET usr == userById(users, seats[i].userId)
    IN usr # None /\ usr[1].username = currentUser.username

\* variant: the importing user's seat is never added
resolveSeatsNoPush(rawSeats, fileUsers, exported, users, currentUser) ==
  [i \in 1..Len(rawSeats) |->
     resolveSeat(rawSeats[i], fileUsers, exported, users)]

resolveSeats(rawSeats, fileUsers, exported, users, currentUser) ==
  LET seats == [i \in 1..Len(rawSeats) |->
                  resolveSeat(rawSeats[i], fileUsers, exported, users)]
  IN IF ~HasCurrentUser(seats, users, currentUser)
     THEN Append(seats, Seat(currentUser.id, NULL, NULL))
     ELSE seats

\* getAirportByIcao, the airport mapping being empty
AirportByIcao(icao) ==
  IF icao = "KJFK" THEN Some(Airport(JFK))
  ELSE IF icao = "KLAX" THEN Some(Airport(LAX))
  ELSE None

\* a leg of a file: the origin's ICAO code (NULL: no origin, version 2 only)
\* and the seats; the other fields are those of ImportLeg and pass through
FileLegs(origins) ==
  {[from |-> o, seats |-> s] : o \in origins, s \in RawSeatLists}

processLeg(rawLeg, fileUsers, exported, users, currentUser) ==
  ImportLeg(IF rawLeg.from = NULL THEN None ELSE AirportByIcao(rawLeg.from),
            resolveSeats(rawLeg.seats, fileUsers, exported, users, currentUser))

\* processV1 and processV2 on a file of one flight: version 1 has the leg's
\* fields on the flight itself
processFile(file, userMapping, currentUser) ==
  LET users == RegisteredUsers
      exported == exportedUsers(file.users, userMapping, users)
  IN <<[date |-> file.date,
        legs |-> [i \in 1..Len(file.legs) |->
                    processLeg(file.legs[i], file.users, exported, users,
                               currentUser)]]>>

FilesV1 ==
  {[version |-> 1, date |-> "2024-01-01", users |-> u, legs |-> <<l>>] :
     u \in FileUserLists, l \in FileLegs({"KJFK", "ZZZZ"})}

SingleSeatLegs ==
  {l \in FileLegs({"KJFK"}) : Len(l.seats) = 1}

\* version 2: one leg of any kind, or several legs of one seat each
FilesV2 ==
  {[version |-> 2, date |-> "2024-01-01", users |-> u, legs |-> ls] :
     u \in FileUserLists,
     ls \in {<<l>> : l \in FileLegs({"KJFK", NULL})} \cup
            UNION {[1..k -> SingleSeatLegs] : k \in 2..MaxFileLegs}}

ProcessAirTrailFile ==
  \E file \in FilesV1 \cup FilesV2, userMapping \in UserMappings,
     k \in 1..Len(RegisteredUsers) :
    /\ call = Idle
    /\ call' = [op |-> "processAirTrailFile", file |-> file,
                userMapping |-> userMapping, user |-> RegisteredUsers[k],
                flights |-> processFile(file, userMapping, RegisteredUsers[k])]
    /\ UNCHANGED <<db, vleg, vres, queue, sent>>

NextImport == ProcessAirTrailFile

SpecImport == Init /\ [][NextImport]_vars

\* C21: every seat the import produces names a registered user or a guest.
C21_SeatHasOccupant ==
  call.op = "processAirTrailFile" =>
    \A f \in 1..Len(call.flights) : \A l \in 1..Len(call.flights[f].legs) :
      \A i \in 1..Len(call.flights[f].legs[l].seats) :
        LET seat == call.flights[f].legs[l].seats[i]
        IN seat.userId # NULL \/ seat.guestName # NULL

\* C30: every leg of every flight the file import produces has a seat whose
\* userId is the id of the importing user.
C30_ImporterSeated ==
  call.op = "processAirTrailFile" =>
    \A f \in 1..Len(call.flights) : \A l \in 1..Len(call.flights[f].legs) :
      \E i \in 1..Len(call.flights[f].legs[l].seats) :
        call.flights[f].legs[l].seats[i].userId = call.user.id

\* a file of two legs whose seats name only a user that maps to nobody here:
\* each leg got the file seat as a guest seat and the importer's seat after it
C30_Witness ==
  /\ call.op = "processAirTrailFile"
  /\ call.file.version = 2
  /\ Len(call.flights[1].legs) = 2
  /\ \A l \in 1..2 :
       LET raw == call.file.legs[l].seats
           seats == call.flights[1].legs[l].seats
       IN /\ Len(raw) = 1 /\ Len(seats) = 2
          /\ seats[1].userId = NULL /\ seats[1].guestName = "Carol C"
          /\ seats[2] = Seat(call.user.id, NULL, NULL)

(***************************************************************************)
(* Two createManyFlights calls with dedupe = true in flight at once, each  *)
(* advancing one await at a time.  call.procs holds the locals of both,    *)
(* call.writes counts the bulk inserts committed so far.                   *)
(***************************************************************************)
Procs == {1, 2}

RaceFlights ==
  {ImportFlight("2024-01-01", Some(Airport(JFK)), <<Seat("u1", NULL, "1A")>>),
   ImportFlight("2024-01-01", Some(Airport(JFK)),
                <<Seat("u1", NULL, "1A"), Seat("u2", NULL, "1B")>>),
   ImportFlight("2024-01-02", Some(Airport(JFK)),
                <<Seat("u1", NULL, "1A"), Seat("u2", NULL, "1B")>>)}

NotStarted == [pc |-> "idle"]

RaceIdle == [op |-> "race", writes |-> 0, procs |-> [p \in Procs |-> NotStarted]]

InitRace ==
  /\ db = EmptyDb
  /\ call = RaceIdle
  /\ vleg = None
  /\ vres = None
  /\ queue = <<>>
  /\ sent = None

RaceAt(p, pc) == call.procs[p].pc = pc

\* the call up to its first await; every batch holds one flight
RaceBegin(p) ==
  \E f \in RaceFlights, userId \in Users :
    /\ RaceAt(p, "idle")
    /\ call' = [call EXCEPT !.procs[p] =
                  [pc |-> "fetch", data |-> <<f>>, userId |-> userId,
                   unique |-> uniqueFlights(<<f>>), existing |-> <<>>,
                   flightsToInsert |-> <<>>, seatsToAttach |-> <<>>,
                   writesAtFetch |-> 0, threw |-> FALSE,
                   insertedFlights |-> 0, attachedSeats |-> 0]]
    /\ UNCHANGED <<db, vleg, vres, queue, sent>>

RaceFetch(p) ==
  /\ RaceAt(p, "fetch")
  /\ LET c == call.procs[p]
     IN \E rows \in Orderings(QueryRows(db, c.userId, c.unique)) :
          call' = [call EXCEPT !.procs[p] =
                     [c EXCEPT !.pc = "seats",
                               !.existing = existingFlights(db, rows, c.unique),
                               !.writesAtFetch = call.writes]]
  /\ UNCHANGED <<db, vleg, vres, queue, sent>>

RaceSeats(p) ==
  /\ RaceAt(p, "seats")
  /\ LET c == call.procs[p]
         seatHolder == userSeatByFlight(db, c.userId, c.existing)
         plan == Decide(c.unique, c.existing, seatHolder, 1)
     IN call' = [call EXCEPT !.procs[p] =
                   [c EXCEPT !.pc = "insert",
                             !.flightsToInsert = plan.flightsToInsert,
                             !.seatsToAttach = plan.seatsToAttach]]
  /\ UNCHANGED <<db, vleg, vres, queue, sent>>

\* the flights of a list whose signature no stored flight has
NotStored(d, flights) ==
  Pick(flights,
       {i \in 1..Len(flights) :
          StoredWithSignature(d, signature(flights[i])) = {}},
       1)

\* variant: the insert looks the signatures up again and leaves out what is
\* stored by now
insertNewRechecked(d, flights) ==
  LET fresh == NotStored(d, flights)
  IN IF Len(fresh) > 0 THEN createManyFlightsPrimitive(d, fresh)
     ELSE [ok |-> TRUE, db |-> d]

\* the bulk insert of flightsToInsert, skipped when the list is empty
insertNew(d, flights) ==
  IF Len(flights) > 0 THEN createManyFlightsPrimitive(d, flights)
  ELSE [ok |-> TRUE, db |-> d]

RaceInsert(p) ==
  /\ RaceAt(p, "insert")
  /\ LET c == call.procs[p]
         r == insertNew(db, c.flightsToInsert)
     IN /\ db' = r.db
        /\ call' = [call EXCEPT
                      !.writes = IF Len(c.flightsToInsert) > 0 THEN @ + 1
                                 ELSE @,
                      !.procs[p] =
                        IF ~r.ok THEN [c EXCEPT !.pc = "done", !.threw = TRUE]
                        ELSE [c EXCEPT !.pc = "attach",
                                       !.insertedFlights =
                                          Len(c.flightsToInsert)]]
  /\ UNCHANGED <<vleg, vres, queue, sent>>

RaceAttach(p) ==
  /\ RaceAt(p, "attach")
  /\ LET c == call.procs[p]
         r == AttachPhase(db, c.seatsToAttach)
     IN /\ db' = r.db
        /\ call' = [call EXCEPT !.procs[p] =
                      [c EXCEPT !.pc = "done", !.threw = r.threw,
                                !.attachedSeats =
                                   IF r.threw THEN 0 ELSE r.attachedSeats]]
  /\ UNCHANGED <<vleg, vres, queue, sent>>

NextRace ==
  \E p \in Procs :
    RaceBegin(p) \/ RaceFetch(p) \/ RaceSeats(p) \/ RaceInsert(p)
      \/ RaceAttach(p)

SpecRace == InitRace /\ [][NextRace]_vars

\* both calls are by one user, carry a flight of one signature that was not
\* stored and seats the user, and ran their lookup before any bulk insert
\* was committed
BothLookedUpFirst ==
  /\ \A p \in Procs : RaceAt(p, "done") /\ ~call.procs[p].threw
  /\ call.procs[1].userId = call.procs[2].userId
  /\ \A p \in Procs :
       \E i \in 1..Len(call.procs[p].data[1].legs[1].seats) :
          call.procs[p].data[1].legs[1].seats[i].userId = call.procs[p].userId
  /\ signature(call.procs[1].data[1]) = signature(call.procs[2].data[1])
  /\ \A p \in Procs : call.procs[p].writesAtFetch = 0

\* C22: when two deduplicating createManyFlights calls of one user, each with
\* a flight of the same signature that is not stored, both run their
\* existing-flight lookup before either writes, both insert the flight as
\* new, and the store ends up with two flights of that signature on which the
\* user holds a seat.
C22_DuplicateRace ==
  BothLookedUpFirst =>
    /\ \A p \in Procs : call.procs[p].insertedFlights = 1
    /\ Cardinality(
         {f \in StoredWithSignature(db, signature(call.procs[1].data[1])) :
            HoldsSeat(db, f.id, call.procs[1].userId)}) = 2

\* the interleaving happened: both calls of u1 are done, both looked up
\* before the first insert, and two flights are stored
C22_Witness ==
  /\ BothLookedUpFirst
  /\ call.procs[1].userId = "u1"
  /\ call.writes = 2
  /\ Cardinality(db.flight) = 2
  /\ \A f \in db.flight : HoldsSeat(db, f.id, "u1")

\* the leg rows of flight id are numbered 0..n-1 and the row numbered i - 1
\* has the origin and the seats of data.legs[i]
LegsInOrder(d, id, data) ==
  LET rows == {l \in d.leg : l.flightId = id}
  IN /\ Cardinality(rows) = Len(data.legs)
     /\ {l.legOrder : l \in rows} = 0..(Len(data.legs) - 1)
     /\ \A i \in 1..Len(data.legs) : \E l \in rows :
          /\ l.legOrder = i - 1
          /\ l.fromId = AirportId(data.legs[i].from)
          /\ {<<s.userId, s.guestName, s.seatNumber>> :
                s \in {x \in d.seat : x.legId = l.id}}
               = {<<data.legs[i].seats[j].userId,
                    data.legs[i].seats[j].guestName,
                    data.legs[i].seats[j].seatNumber>> :
                    j \in 1..Len(data.legs[i].seats)}

\* C23: after a successful createFlightPrimitive, updateFlightPrimitive or
\* createManyFlightsPrimitive the legs of every written flight are numbered
\* 0..n-1 in the order of the submitted legs, and after an update no leg the
\* flight had before, and no seat of such a leg, is left in the store.
C23_LegOrder ==
  [][(call'.ok /\ call'.op # "attach") =>
       IF call'.op = "createFlightPrimitive"
       THEN LegsInOrder(db', db.seq.flight, call'.data)
       ELSE IF call'.op = "createManyFlightsPrimitive"
       THEN \A k \in 1..Len(call'.data) :
              LegsInOrder(db', db.seq.flight + k - 1, call'.data[k])
       ELSE /\ LegsInOrder(db', call'.id, call'.data)
            /\ LET old == {l \in db.leg : l.flightId = call'.id}
               IN /\ old \cap db'.leg = {}
                  /\ \A s \in db'.seat : \A l \in old : s.legId # l.id
                  /\ \A s \in db.seat :
                       (\E l \in old : s.legId = l.id) => s \notin db'.seat]_vars

\* a flight stored with one leg was updated to two legs: it has two leg rows,
\* numbered 0 and 1, and the leg it had is gone
C23_Witness ==
  /\ call.op = "updateFlightPrimitive" /\ call.ok
  /\ Len(call.data.legs) = 2
  /\ {l.legOrder : l \in {x \in db.leg : x.flightId = call.id}} = {0, 1}
  /\ \A l \in db.leg : l.id > 1
  /\ db.seq.leg = 4

(***************************************************************************)
(* The candidate lookup of createManyFlights on its own: stores built by   *)
(* imports without de-duplication, then the fetch and its filter for a     *)
(* batch.                                                                  *)
(***************************************************************************)
MaxLookupStored == 2

LookupFlights ==
  {ImportFlight("2024-01-01", Some(Airport(JFK)), <<Seat("u1", NULL, "1A")>>),
   ImportFlight("2024-01-01", None, <<Seat("u1", NULL, "1A")>>),
   ImportFlight("2024-01-02", Some(Airport(JFK)), <<Seat("u2", NULL, "1B")>>)}

LookupBatches == UNION {[1..k -> LookupFlights] : k \in 1..MaxBatch}

StoreFlight ==
  \E f \in LookupFlights, userId \in Users :
    /\ Cardinality(db.flight) < MaxLookupStored
    /\ LET r == createManyFlights(db, <<f>>, userId, FALSE, <<>>)
       IN /\ db' = r.db
          /\ call' = [op |-> "createManyFlights", data |-> <<f>>,
                      userId |-> userId, dedupe |-> FALSE, threw |-> r.threw]
    /\ UNCHANGED <<vleg, vres, queue, sent>>

\* lines 340-381 of a deduplicating call: uniqueFlights, the fetch, the filter
LookupCandidates ==
  \E data \in LookupBatches, userId \in Users :
    LET unique == uniqueFlights(data)
    IN \E rows \in Orderings(QueryRows(db, userId, unique)) :
         /\ call' = [op |-> "lookup", data |-> data, userId |-> userId,
                     unique |-> unique,
                     existing |-> existingFlights(db, rows, unique)]
         /\ UNCHANGED <<db, vleg, vres, queue, sent>>

NextLookup == StoreFlight \/ LookupCandidates

SpecLookup == Init /\ [][NextLookup]_vars

\* C24: every stored flight on which the user holds a seat and whose
\* signature is that of a flight of the de-duplicated batch is among the
\* candidates the lookup returns.
C24_NarrowingLossless ==
  call.op = "lookup" =>
    \A i \in 1..Len(call.unique) : \A e \in db.flight :
      (/\ HoldsSeat(db, e.id, call.userId)
       /\ signature(FlightView(db, e)) = signature(call.unique[i]))
        => \E k \in 1..Len(call.existing) : call.existing[k].id = e.id

\* the seat rows a step added to legs that were stored before it
SeatsAddedToStoredLegs(before, after) ==
  {s \in after.seat \ before.seat : \E l \in before.leg : l.id = s.legId}

\* C25: a createManyFlights call that succeeds returns as insertedFlights the
\* number of flight rows it added and as attachedSeats the number of seat
\* rows it added to legs that existed before the call.
C25_ReturnCounts ==
  [][(call'.op = "createManyFlights" /\ ~call'.threw) =>
       /\ call'.insertedFlights =
            Cardinality(db'.flight) - Cardinality(db.flight)
       /\ call'.attachedSeats =
            Cardinality(SeatsAddedToStoredLegs(db, db'))]_vars

(***************************************************************************)
(* The bulk insert on its own, with batches in which any flight may be one *)
(* the store rejects.                                                      *)
(***************************************************************************)
MaxBulk == 2
MaxBulkStored == 3

BulkFlights ==
  {ImportFlight("2024-01-01", Some(Airport(JFK)), <<Seat("u1", NULL, "1A")>>),
   ImportFlight("2024-01-02", Some(Airport(JFK)),
                <<Seat("u1", NULL, "1A"), Seat(NULL, "Ann", NULL)>>),
   ImportFlight("2024-01-03", Some(Airport(JFK)),
                <<Seat("u1", NULL, "1A"), Seat("u1", NULL, "2B")>>),
   [date |-> "2024-01-04",
    legs |-> <<ImportLeg(Some(Airport(JFK)), <<Seat("u2", NULL, "1A")>>),
               ImportLeg(Some(Airport(LAX)),
                         <<Seat("u2", NULL, "1A"), Seat("u2", NULL, "2B")>>)>>],
   [date |-> "2024-01-05",
    legs |-> <<ImportLeg(Some(Airport(JFK)), <<Seat("u2", NULL, "1A")>>),
               ImportLeg(Some(Airport(LAX)), <<Seat("u2", NULL, "1A")>>)>>]}

BulkBatches == UNION {[1..k -> BulkFlights] : k \in 1..MaxBulk}

BulkInsert ==
  \E data \in BulkBatches :
    /\ Cardinality(db.flight) + Len(data) <= MaxBulkStored
    /\ LET r == createManyFlightsPrimitive(db, data)
       IN /\ db' = r.db
          /\ call' = [op |-> "createManyFlightsPrimitive", data |-> data,
                      ok |-> r.ok]
    /\ UNCHANGED <<vleg, vres, queue, sent>>

NextBulk == BulkInsert

SpecBulk == Init /\ [][NextBulk]_vars

\* C26: a createManyFlightsPrimitive call either stores every flight of the
\* batch with its legs and seats, or, when any insert of it fails, leaves
\* the flight, leg and seat tables as they were, the flights before the
\* failing one included.
C26_BatchAllOrNothing ==
  [][call'.op = "createManyFlightsPrimitive" =>
       IF call'.ok
       THEN \A k \in 1..Len(call'.data) :
              StoredAs(db', db.seq.flight + k - 1, call'.data[k])
       ELSE Tables(db') = Tables(db)]_vars

\* a batch of two whose second flight names u1 twice failed on a store that
\* held a flight: the first flight of the batch is not stored
C26_Witness ==
  /\ call.op = "createManyFlightsPrimitive" /\ ~call.ok
  /\ Len(call.data) = 2
  /\ ~SelfCollides(call.data[1].legs[1].seats)
  /\ SelfCollides(call.data[2].legs[1].seats)
  /\ Cardinality(db.flight) = 1
  /\ \A f \in db.flight : f.date # call.data[1].date

\* C27: in the attach phase a queued seat is left out only when an earlier
\* queued seat names the same leg and the same non-null userId; guest seats
\* of one leg with different guest names are all sent and inserted.
C27_GuestSeatsKept ==
  sent # None =>
    \A k \in 1..Len(queue) :
      (~\E j \in 1..(k - 1) :
          /\ queue[j].legId = queue[k].legId
          /\ queue[k].userId # NULL
          /\ queue[j].userId = queue[k].userId)
        => \E i \in 1..Len(sent[1]) : sent[1][i] = queue[k]

(***************************************************************************)
(* The signature on its own: two flights that differ in the components of  *)
(* the first leg, with absent, empty and separator-holding strings.        *)
(***************************************************************************)
SigStrings == {NULL, "", "A", "A|A"}

SigLeg(from, flightNumber, aircraftReg) ==
  [ImportLeg(from, <<Seat("u1", NULL, "1A")>>)
     EXCEPT !.flightNumber = flightNumber, !.aircraftReg = aircraftReg]

SigFlights ==
  {[date |-> "2024-01-01", legs |-> <<>>]}
  \cup {[date |-> "2024-01-01", legs |-> <<SigLeg(from, n, r)>>] :
          from \in {None, Some(Airport(JFK))},
          n \in SigStrings, r \in SigStrings}
  \cup {[date |-> "2024-01-01",
         legs |-> <<SigLeg(Some(Airport(JFK)), "A", NULL),
                    SigLeg(Some(Airport(JFK)), "A", NULL)>>]}

\* the keys of two flights of a batch, as uniqueMap computes them (line 343)
Sign ==
  \E f \in SigFlights, g \in SigFlights :
    /\ call = Idle
    /\ call' = [op |-> "signature", f |-> f, g |-> g,
                keyF |-> signature(f), keyG |-> signature(g)]
    /\ UNCHANGED <<db, vleg, vres, queue, sent>>

NextSig == Sign

SpecSig == Init /\ [][NextSig]_vars

\* the values the signature is built from
SigComponents(f) ==
  IF Len(f.legs) = 0 THEN <<f.date, 0>>
  ELSE <<f.date, AirportId(f.legs[1].from), AirportId(f.legs[1].to),
         f.legs[1].flightNumber, f.legs[1].aircraftReg,
         f.legs[1].departure, f.legs[1].arrival, Len(f.legs)>>

\* C28: two flights have the same signature only if they agree on date, the
\* first leg's origin id, destination id, flightNumber, aircraftReg,
\* departure and arrival, and on the number of legs; null and the empty
\* string, and strings holding the separator, count as different values.
C28_SignatureInjective ==
  call.op = "signature" =>
    (call.keyF = call.keyG => SigComponents(call.f) = SigComponents(call.g))

(***************************************************************************)
(* deleteAll over stores of one-leg and two-leg flights with seats of the  *)
(* acting user, of another user and of guests.                             *)
(***************************************************************************)
MaxDeleteStored == 2   \* flight rows the store may hold in these runs
MaxDeleteSeq == 3      \* flight ids these runs may hand out

DeleteFlights ==
  {ImportFlight("2024-01-01", Some(Airport(JFK)), seats) :
     seats \in {<<Seat("u1", NULL, "1A")>>,
                <<Seat("u1", NULL, "1A"), Seat(NULL, "Ann", NULL)>>,
                <<Seat("u1", NULL, "1A"), Seat("u2", NULL, "1B")>>}}
  \cup {[date |-> "2024-01-01",
          legs |-> <<ImportLeg(Some(Airport(JFK)), <<Seat("u1", NULL, "1A")>>),
                     ImportLeg(Some(Airport(LAX)), seats)>>] :
          seats \in {<<Seat("u1", NULL, "1A")>>,
                     <<Seat(NULL, "Ann", NULL)>>,
                     <<Seat("u2", NULL, "1A")>>}}

\* the rows of flight JOIN leg JOIN seat that belong to one flight
JoinedSeats(d, flightId) ==
  {s \in d.seat : \E l \in d.leg : l.id = s.legId /\ l.flightId = flightId}

\* the grouped query of deleteAll: flights having exactly one joined seat
\* row of the user and only guest rows (userId null) besides it
deleteAllIds(d, userId) ==
  {f.id : f \in
     {g \in d.flight :
        LET rows == JoinedSeats(d, g.id)
        IN /\ rows # {}
           /\ Cardinality({s \in rows : s.userId = userId}) = 1
           /\ Cardinality({s \in rows : s.userId = NULL})
                = Cardinality(rows) - 1}}

\* db.deleteFrom('flight').where('id', 'in', ids), with the cascades
deleteFlights(d, ids) ==
  LET legs == {l.id : l \in {x \in d.leg : x.flightId \in ids}}
  IN [d EXCEPT !.flight = {f \in @ : f.id \notin ids},
               !.leg = {l \in @ : l.flightId \notin ids},
               !.seat = {s \in @ : s.legId \notin legs}]

DeleteCreate ==
  \E user \in Users, input \in DeleteFlights :
    /\ Cardinality(db.flight) < MaxDeleteStored
    /\ db.seq.flight <= MaxDeleteSeq
    /\ LET r == createFlightPrimitive(db, input)
       IN /\ db' = r.db
          /\ call' = [op |-> "create", user |-> user, input |-> input,
                      threw |-> ~r.ok]
    /\ UNCHANGED <<vleg, vres, queue, sent>>

DeleteAll ==
  \E user \in Users :
    LET idsToDelete == deleteAllIds(db, user)
    IN /\ db' = IF idsToDelete = {} THEN db ELSE deleteFlights(db, idsToDelete)
       /\ call' = [op |-> "deleteAll", user |-> user,
                   idsToDelete |-> idsToDelete]
       /\ UNCHANGED <<vleg, vres, queue, sent>>

NextDelete == DeleteCreate \/ DeleteAll

SpecDelete == Init /\ [][NextDelete]_vars

\* flights on which the user holds a seat and every other seat is a guest's
OwnFlights(d, userId) ==
  {f.id : f \in
     {g \in d.flight :
        /\ HoldsSeat(d, g.id, userId)
        /\ \A s \in JoinedSeats(d, g.id) : s.userId \in {userId, NULL}}}

\* C29: deleteAll deletes exactly the flights on which the acting user holds
\* a seat and no other registered user holds one, whatever their number of
\* legs, and no flight on which another registered user holds a seat.
C29_DeleteAllOwnFlights ==
  [][(call'.op = "deleteAll" /\ call' # call) =>
       {f.id : f \in db.flight} \ {f.id : f \in db'.flight}
         = OwnFlights(db, call'.user)]_vars

====
